---- MODULE Spec2Model ----
(***************************************************************************)
(* Model of the Zotero literature analyser: the Enrichment Pipeline        *)
(* (src/src/analyzer.py, PaperAnalyzer) and the Batch Runner               *)
(* (src/src/main.py and src/src/simple_analyzer.py, analyze_papers_batch). *)
(*                                                                         *)
(* Text is modelled by TLA+ strings (Len, SubSeq and \o act on them as on  *)
(* Python str); a title is a sequence of Unicode code points, so that      *)
(* str.isascii and str.isalpha are decided per character.                  *)
(***************************************************************************)
EXTENDS Integers, Sequences, FiniteSets, TLC

VARIABLES
    papers,            \* analyze_papers_batch: the list of records handed in
    delay,             \* config.delay / delay_between_calls
    analyses,          \* analyze_papers_batch: the list of results built so far
    pc,                \* where the batch runner (and the record's analysis) stands
    i,                 \* number of the record being processed (1-based), 0 before the loop
    translated_title,  \* analyze_paper: local translated_title
    full_text,         \* analyze_paper: local full_text
    attempt,           \* _call_llm_analysis: loop variable attempt (0-based)
    json_bound,        \* _call_llm_analysis: whether the local name json is bound yet
    log,               \* the service calls and sleeps of the record in hand, in order
    history,           \* per result appended: what the service did for that record
    interrupted,       \* where a KeyboardInterrupt arrived: <<>> or <<record, pc>>
    exc,               \* the exception being handled or propagated, NoExc when none
    probe,             \* a title under classification and _is_english_title's verdict
    db,                \* the Zotero database file at database_path and its contents
    manager,           \* the CollectionManager object, NoObject before it is constructed
    reader,            \* the LocalZoteroReader object, NoObject before it is constructed
    call,              \* the last call of a reader, resolver, filter or exporter operation
    batch_size,        \* simple_analyzer.analyze_papers_batch: batch_size (1 for main.py)
    path_locals,       \* get_collection_path: its locals current and path_parts
    connections        \* the sqlite3 connections that are open

vars == <<papers, delay, analyses, pc, i, translated_title, full_text, attempt,
          json_bound, log, history, interrupted, exc, probe, db, manager, reader, call, batch_size, path_locals, connections>>

batch_vars == <<papers, delay, analyses, pc, i, translated_title, full_text, attempt,
                json_bound, log, history, interrupted, exc, db, manager, reader, call, batch_size, path_locals, connections>>

\* the variables of the batch runner and of one record's analysis
loop_vars == <<papers, delay, analyses, pc, i, translated_title, full_text, attempt,
               json_bound, log, history, interrupted, exc, batch_size>>

-----------------------------------------------------------------------------
(* Bounds of the model *)

\* longest batch handed to analyze_papers_batch
MaxPapers == 2

\* longest title built for _is_english_title
MaxTitleLen == 10

\* the analyzer's token budget (PaperAnalyzer.max_tokens, a constructor
\* parameter); the sample texts below are sized around it
max_tokens == 320

(* Program constants *)

\* analyzer.py:356  max_retries = 3
max_retries == 3

\* analyzer.py:393  truncated_text[:300]
AbstractChars == 300

\* analyzer.py:394  content[:200]
RawChars == 200

\* analyzer.py:400  time.sleep(2)
RetrySleepSeconds == 2

\* analyzer.py:268  english_ratio > 0.7, as the fraction 7/10
RatioNum == 7
RatioDen == 10

-----------------------------------------------------------------------------
(* Python str operations *)

Min(a, b) == IF a < b THEN a ELSE b

\* s[:n]
Take(s, n) == SubSeq(s, 1, Min(n, Len(s)))

\* s[n:] for the characters after the first n
Drop(s, n) == SubSeq(s, n + 1, Len(s))

\* s.startswith(p)
StartsWith(s, p) == Len(s) >= Len(p) /\ SubSeq(s, 1, Len(p)) = p

\* the places where p occurs in s
Occurrences(s, p) ==
    {k \in 1..(Len(s) - Len(p) + 1) : SubSeq(s, k, k + Len(p) - 1) = p}

\* s.replace(p, ''): the non-overlapping occurrences removed, leftmost first
RECURSIVE Remove(_, _)
Remove(s, p) ==
    LET found == Occurrences(s, p)
        k == CHOOSE k \in found : \A j \in found : k <= j
    IN  IF found = {} THEN s
        ELSE SubSeq(s, 1, k - 1) \o Remove(Drop(s, k + Len(p) - 1), p)

Whitespace == {" ", "\n"}

RECURSIVE LStrip(_)
LStrip(s) ==
    IF Len(s) > 0 /\ SubSeq(s, 1, 1) \in Whitespace THEN LStrip(Drop(s, 1)) ELSE s

RECURSIVE RStrip(_)
RStrip(s) ==
    IF Len(s) > 0 /\ SubSeq(s, Len(s), Len(s)) \in Whitespace
    THEN RStrip(SubSeq(s, 1, Len(s) - 1)) ELSE s

\* s.strip()
Strip(s) == RStrip(LStrip(s))

\* n copies of s
RECURSIVE Rep(_, _)
Rep(s, n) ==
    IF n = 0 THEN ""
    ELSE IF n % 2 = 0 THEN LET half == Rep(s, n \div 2) IN half \o half
    ELSE s \o Rep(s, n - 1)

-----------------------------------------------------------------------------
(* _is_english_title: analyzer.py:255-268 *)

\* char.isascii(): code point below 128
isascii(c) == c < 128

\* the alphabetic characters outside ASCII that the model's titles use
NonAsciiLetters == {233, 28145, 24230, 23398, 20064, 26410, 30693, 26631, 39064}

\* char.isalpha(): a letter of ASCII (A-Z, a-z) or of another script
isalpha(c) == (c \in 65..90) \/ (c \in 97..122) \/ (c \in NonAsciiLetters)

\* sum(1 for char in title if char.isascii() and char.isalpha())
RECURSIVE english_chars(_)
english_chars(title) ==
    IF title = <<>> THEN 0
    ELSE (IF isascii(Head(title)) /\ isalpha(Head(title)) THEN 1 ELSE 0)
         + english_chars(Tail(title))

\* sum(1 for char in title if char.isalpha())
RECURSIVE total_chars(_)
total_chars(title) ==
    IF title = <<>> THEN 0
    ELSE (IF isalpha(Head(title)) THEN 1 ELSE 0) + total_chars(Tail(title))

\* english_chars / total_chars > 0.7: the quotient of two counts of at most a
\* title's length exceeds the double 0.7 exactly when it exceeds 7/10
RatioReaches(num, den) == num * RatioDen >= RatioNum * den

RatioExceeds(num, den) == num * RatioDen > RatioNum * den

is_english_title(title) ==
    IF title = <<>> THEN FALSE
    ELSE IF total_chars(title) = 0 THEN FALSE
    ELSE RatioExceeds(english_chars(title), total_chars(title))

-----------------------------------------------------------------------------
(* Python values *)

\* None, where a str may stand as well
None == "<None>"

\* dict.get(key, default)
get(d, key, default) == IF key \in DOMAIN d THEN d[key] ELSE default

\* an exception object: its class and str(e)
Exc(type, msg) == [type |-> type, msg |-> msg]

\* no exception raised
NoExc == Exc("", "")

\* str(e)
str(e) == e.msg

-----------------------------------------------------------------------------
(* PaperAnalysis: analyzer.py:12-22 *)

PaperAnalysisFields ==
    {"title", "translated_title", "authors", "collection_path", "abstract",
     "innovation_points", "summary", "error_message"}

PaperAnalysisDefaults ==
    [translated_title |-> "", authors |-> "", collection_path |-> "",
     abstract |-> "", innovation_points |-> "", summary |-> "",
     error_message |-> ""]

UnexpectedKeyword ==
    Exc("TypeError", "PaperAnalysis.__init__() got an unexpected keyword argument")

MissingTitle ==
    Exc("TypeError", "PaperAnalysis.__init__() missing 1 required positional argument: 'title'")

\* the dataclass constructor called with keyword arguments kw: the object, or
\* the TypeError Python raises for a keyword that is no field
PaperAnalysis(kw) ==
    IF ~(DOMAIN kw \subseteq PaperAnalysisFields)
    THEN [exc |-> UnexpectedKeyword, value |-> PaperAnalysisDefaults]
    ELSE IF "title" \notin DOMAIN kw
    THEN [exc |-> MissingTitle, value |-> PaperAnalysisDefaults]
    ELSE [exc |-> NoExc, value |-> kw @@ PaperAnalysisDefaults]

-----------------------------------------------------------------------------
(* The records of the model, as zotero_reader.py builds them: 91-109, 155-160,
   198-203 *)

\* "DL"
TitleEnglish == <<68, 76>>

\* two CJK letters
TitleChinese == <<28145, 24230>>

\* analyzer.py:135, the default title: four CJK letters
TitleUnknown == <<26410, 30693, 26631, 39064>>

ShortAbstract == "We study x."

\* longer than the token budget
LongText == Rep("t", max_tokens + 5)

zotero_data_dir == "/zotero"

AttPdf == [key |-> "ATT1", path |-> "storage:paper.pdf", contentType |-> "application/pdf"]

AttScan == [key |-> "ATT2", path |-> "storage:scan.pdf", contentType |-> "application/pdf"]

AttLocked == [key |-> "ATT3", path |-> "/locked/linked.pdf", contentType |-> "application/pdf"]

AttHtml == [key |-> "ATT4", path |-> "storage:page.html", contentType |-> "text/html"]

\* a linked file, one that is gone, an attachment row without key and one
\* without path
AttLinked == [key |-> "ATT5", path |-> "/docs/linked.pdf", contentType |-> "application/pdf"]

AttGone == [key |-> "ATT6", path |-> "storage:gone.pdf", contentType |-> "application/pdf"]

AttNoKey == [path |-> "storage:paper.pdf", contentType |-> "application/pdf"]

AttNoPath == [key |-> "ATT1", contentType |-> "application/pdf"]

LinkedText == "Linked text."

\* the files that exist, with the text extract_pdf_text gets from each
FileText ==
    [p \in {"/zotero/storage/ATT1/paper.pdf", "/zotero/storage/ATT2/scan.pdf",
            "/zotero/storage/ATT4/page.html", "/docs/linked.pdf"} |->
        IF p = "/zotero/storage/ATT1/paper.pdf" THEN LongText
        ELSE IF p = "/docs/linked.pdf" THEN LinkedText
        ELSE ""]

\* paths under a directory the process may not search: stat raises EACCES
DeniedPaths == {"/locked/linked.pdf"}

Ada == [firstName |-> "Ada", lastName |-> "Lovelace", creatorType |-> "author",
        name |-> "Ada Lovelace"]

Ed == [firstName |-> "Ed", lastName |-> "Itor", creatorType |-> "editor",
       name |-> "Ed Itor"]

PaperEnAbs ==
    [key |-> "P1", title |-> TitleEnglish, creators |-> <<Ada, Ed>>,
     abstractNote |-> ShortAbstract, attachments |-> <<>>]

PaperZhPdf ==
    [key |-> "P2", title |-> TitleChinese, creators |-> <<Ada>>,
     attachments |-> <<AttHtml, AttScan, AttPdf>>]

PaperEnBare ==
    [key |-> "P3", title |-> TitleEnglish, creators |-> <<>>,
     abstractNote |-> "", attachments |-> <<>>]

PaperZhScan ==
    [key |-> "P4", creators |-> <<Ed>>, attachments |-> <<AttScan>>]

PaperEnLocked ==
    [key |-> "P5", title |-> TitleEnglish, creators |-> <<Ada>>,
     abstractNote |-> ShortAbstract, attachments |-> <<AttLocked>>]

PaperSamples == {PaperEnAbs, PaperZhPdf, PaperEnBare, PaperZhScan, PaperEnLocked}

-----------------------------------------------------------------------------
(* _format_authors: analyzer.py:212-225 *)

RECURSIVE author_names(_)
author_names(creators) ==
    IF creators = <<>> THEN <<>>
    ELSE LET creator == Head(creators)
             name0 == Strip(get(creator, "name", ""))
             name == IF name0 # "" THEN name0
                     ELSE Strip(Strip(get(creator, "firstName", "")) \o " "
                                \o Strip(get(creator, "lastName", "")))
         IN  (IF get(creator, "creatorType", None) = "author" /\ name # ""
              THEN <<name>> ELSE <<>>) \o author_names(Tail(creators))

\* sep.join(parts)
RECURSIVE join(_, _)
join(sep, parts) ==
    IF parts = <<>> THEN ""
    ELSE IF Len(parts) = 1 THEN parts[1]
    ELSE parts[1] \o sep \o join(sep, Tail(parts))

\* analyzer.py:225, the literal for a record without authors
UnknownAuthors == "unknown authors"

format_authors(creators) ==
    IF author_names(creators) # <<>> THEN join("; ", author_names(creators))
    ELSE UnknownAuthors

-----------------------------------------------------------------------------
(* _get_attachment_path: analyzer.py:227-253 *)

\* Path.exists(): TRUE, FALSE, or PermissionError when stat is refused
PermissionDenied == Exc("PermissionError", "[Errno 13] Permission denied")

\* os.path.exists(): never raises
os_path_exists(p) == p \in DOMAIN FileText

\* the resolved path, None, or the exception Path.exists() raised
get_attachment_path(attachment, data_dir) ==
    LET attachment_path == get(attachment, "path", None)
        storage == StartsWith(attachment_path, "storage:")
        full_path == IF storage
                     THEN data_dir \o "/storage/" \o get(attachment, "key", "")
                          \o "/" \o Remove(attachment_path, "storage:")
                     ELSE attachment_path
    IN  IF attachment_path = None \/ attachment_path = ""
        THEN [exc |-> NoExc, value |-> None]
        ELSE IF storage /\ (data_dir = None \/ data_dir = "")
        THEN [exc |-> NoExc, value |-> None]
        ELSE IF storage /\ get(attachment, "key", None) \in {None, ""}
        THEN [exc |-> NoExc, value |-> None]
        ELSE IF full_path \in DeniedPaths
        THEN [exc |-> PermissionDenied, value |-> None]
        ELSE [exc |-> NoExc,
              value |-> IF full_path \in DOMAIN FileText THEN full_path ELSE None]

\* extract_pdf_text: analyzer.py:54-89; "" when nothing can be extracted
extract_pdf_text(pdf_path) ==
    IF pdf_path \in DOMAIN FileText THEN FileText[pdf_path] ELSE ""

\* what the loop over the attachments comes to: the exception that left it,
\* the full text, and the paths extract_pdf_text was called with, in order
Found(e, value, extracted) == [exc |-> e, value |-> value, extracted |-> extracted]

RECURSIVE find_full_text_any_type(_, _)
find_full_text_any_type(attachments, data_dir) ==
    IF attachments = <<>> THEN Found(NoExc, "", <<>>)
    ELSE LET attachment == Head(attachments)
             resolved == get_attachment_path(attachment, data_dir)
             pdf_path == resolved.value
             text == extract_pdf_text(pdf_path)
             rest == find_full_text_any_type(Tail(attachments), data_dir)
         IN  IF resolved.exc # NoExc
             THEN Found(resolved.exc, "", <<>>)
             ELSE IF pdf_path # None /\ pdf_path # "" /\ os_path_exists(pdf_path)
             THEN IF text # "" THEN Found(NoExc, text, <<pdf_path>>)
                  ELSE [rest EXCEPT !.extracted = <<pdf_path>> \o @]
             ELSE rest

\* analyzer.py:155-167: the loop over the attachments; the first PDF that
\* yields text ends it
RECURSIVE find_full_text(_, _)
find_full_text(attachments, data_dir) ==
    IF attachments = <<>> THEN Found(NoExc, "", <<>>)
    ELSE LET attachment == Head(attachments)
             resolved == get_attachment_path(attachment, data_dir)
             pdf_path == resolved.value
             text == extract_pdf_text(pdf_path)
             rest == find_full_text(Tail(attachments), data_dir)
         IN  IF get(attachment, "contentType", None) # "application/pdf"
             THEN rest
             ELSE IF resolved.exc # NoExc
             THEN Found(resolved.exc, "", <<>>)
             ELSE IF pdf_path # None /\ pdf_path # "" /\ os_path_exists(pdf_path)
             THEN IF text # "" THEN Found(NoExc, text, <<pdf_path>>)
                  ELSE [rest EXCEPT !.extracted = <<pdf_path>> \o @]
             ELSE rest

-----------------------------------------------------------------------------
(* truncate_text: analyzer.py:110-120. The encoding is modelled with one token
   per character. *)

encode(text) == text

decode(tokens) == tokens

truncate_text(text) ==
    IF Len(encode(text)) <= max_tokens THEN text
    ELSE decode(Take(encode(text), max_tokens))

-----------------------------------------------------------------------------
(* The generation service: client.chat.completions.create, an external call
   that returns text or raises *)

JsonFull == "{\"abstract\": \"A\", \"innovation_points\": \"I\", \"summary\": \"S\"}"

JsonPartial == "{\"abstract\": \"A\"}"

\* the texts json.loads accepts, with the object each denotes
JsonDocs ==
    [t \in {JsonFull, JsonPartial} |->
        IF t = JsonFull
        THEN [abstract |-> "A", innovation_points |-> "I", summary |-> "S"]
        ELSE [abstract |-> "A"]]

JSONDecodeError == Exc("JSONDecodeError", "Expecting value: line 1 column 1 (char 0)")

\* json.loads(content)
json_loads(content) ==
    IF content \in DOMAIN JsonDocs
    THEN [exc |-> NoExc, value |-> JsonDocs[content]]
    ELSE [exc |-> JSONDecodeError, value |-> <<>>]

\* the code-fence marker of a response: three backquotes, a character a TLA+
\* string cannot hold, written ~ here
Fence == "~~~"

RespFenced == Fence \o "json\n" \o JsonFull \o "\n" \o Fence

RespPartial == " " \o Fence \o "\n" \o JsonPartial \o "\n" \o Fence \o " "

RespProse == " Sorry, no JSON.\n"

\* unparsable and, fences removed, longer than the raw-response cut
RespLongProse == Fence \o "json\n" \o Rep("r", RawChars + 5) \o "\n" \o Fence \o "\n"

ConnectionFault == Exc("APIConnectionError", "Connection error.")

\* an exception whose str() is empty, as TimeoutError() is
SilentFault == Exc("TimeoutError", "")

Returns(text) == [exc |-> NoExc, text |-> text]

Raises(e) == [exc |-> e, text |-> ""]

AnalysisOutcomes ==
    {Returns(RespFenced), Returns(RespPartial), Returns(RespProse),
     Returns(RespLongProse), Raises(ConnectionFault), Raises(SilentFault)}

TranslationOutcomes == {Returns(" T-zh \n"), Raises(ConnectionFault)}

-----------------------------------------------------------------------------
(* _translate_title: analyzer.py:270-300 *)

\* lines 272-273: whether a generation call is issued at all
needs_translation(title) == is_english_title(title)

\* lines 287-300: the value returned once the call has returned or raised
translation_result(outcome) ==
    IF outcome.exc # NoExc THEN "" ELSE Strip(outcome.text)

-----------------------------------------------------------------------------
(* _call_llm_analysis: analyzer.py:302-405 *)

strip_fences_kept(content) == content

\* lines 371-374
strip_fences(content) ==
    IF StartsWith(content, Fence \o "json")
    THEN Strip(Remove(Remove(content, Fence \o "json"), Fence))
    ELSE IF StartsWith(content, Fence) THEN Strip(Remove(content, Fence))
    ELSE content

required_fields == {"abstract", "innovation_points", "summary"}

\* analyzer.py:394, the marker put before the raw response
ParseFailedMarker == "parse failed, raw response: "

MissingFields == Exc("ValueError", "response lacks required fields")

\* what evaluating json.JSONDecodeError raises while the function's local name
\* json (bound by the import at line 377) is still unbound
UnboundLocal ==
    Exc("UnboundLocalError",
        "cannot access local variable 'json' where it is not associated with a value")

\* analyzer.py:405
MaxRetriesReached == Exc("Exception", "LLM analysis failed, maximum retries reached")

\* what one pass of the loop comes to: the function returns value, raises
\* exc, sleeps before the next pass ("sleep") or goes straight to it ("next");
\* bound says whether json is bound afterwards, and seen what the service
\* delivered ("json", "partial", "unparsable", "raise")
Step(tag, value, e, bound, seen) ==
    [tag |-> tag, value |-> value, exc |-> e, bound |-> bound, seen |-> seen]

on_exception_retrying(att, bound, e, seen) ==
    IF ~bound THEN Step("raise", <<>>, UnboundLocal, bound, seen)
    ELSE Step("sleep", <<>>, e, bound, seen)

\* the except clauses (lines 388-402) for an exception e that is no
\* JSONDecodeError, raised in pass att with json bound or not
on_exception(att, bound, e, seen) ==
    IF ~bound THEN Step("raise", <<>>, UnboundLocal, bound, seen)
    ELSE IF att < max_retries - 1 THEN Step("sleep", <<>>, e, bound, seen)
    ELSE Step("raise", <<>>, e, bound, seen)

llm_attempt_unvalidated(att, bound, outcome, truncated_text) ==
    IF outcome.exc # NoExc THEN on_exception(att, bound, outcome.exc, "raise")
    ELSE LET content == strip_fences(Strip(outcome.text))
             result == json_loads(content)
         IN  IF result.exc # NoExc
             THEN IF att = max_retries - 1
                  THEN Step("return",
                            [abstract |-> Take(truncated_text, AbstractChars),
                             innovation_points |->
                                 ParseFailedMarker \o Take(content, RawChars),
                             summary |-> ParseFailedMarker \o Take(content, RawChars)],
                            NoExc, TRUE, "unparsable")
                  ELSE Step("next", <<>>, NoExc, TRUE, "unparsable")
             ELSE Step("return", result.value, NoExc, TRUE,
                       IF required_fields \subseteq DOMAIN result.value
                       THEN "json" ELSE "partial")

\* one pass of the loop body (lines 358-402) for the service's outcome
llm_attempt(att, bound, outcome, truncated_text) ==
    IF outcome.exc # NoExc THEN on_exception(att, bound, outcome.exc, "raise")
    ELSE LET content == strip_fences(Strip(outcome.text))
             result == json_loads(content)
         IN  IF result.exc # NoExc
             THEN IF att = max_retries - 1
                  THEN Step("return",
                            [abstract |-> Take(truncated_text, AbstractChars),
                             innovation_points |->
                                 ParseFailedMarker \o Take(content, RawChars),
                             summary |-> ParseFailedMarker \o Take(content, RawChars)],
                            NoExc, TRUE, "unparsable")
                  ELSE Step("next", <<>>, NoExc, TRUE, "unparsable")
             ELSE IF required_fields \subseteq DOMAIN result.value
             THEN Step("return", result.value, NoExc, TRUE, "json")
             ELSE on_exception(att, TRUE, MissingFields, "partial")

-----------------------------------------------------------------------------
(* The Zotero database, as selector.py and zotero_reader.py query it *)

\* most collections in a database of the model
MaxCollections == 2

\* SQL NULL in an integer column
NULL == 0

\* collections.collectionName and collections.key, by collectionID
CollectionNames == <<"M", "B", "T", "A">>

CollectionKeys == <<"CK1", "CK2", "CK3", "CK4">>

\* the names of the model in the order sorting puts them (ORDER BY
\* c.collectionName, key=lambda x: x.name)
NameOrder == <<"A", "B", "M", "T">>

name_rank(name) == CHOOSE k \in DOMAIN NameOrder : NameOrder[k] = name

\* the rows of items joined with itemTypes, by itemID
Items ==
    <<[key |-> "P1", typeName |-> "journalArticle", dateAdded |-> 1],
      [key |-> "P2", typeName |-> "book", dateAdded |-> 2],
      [key |-> "N1", typeName |-> "note", dateAdded |-> 3]>>

\* typeName IN ('note', 'attachment')
ExcludedTypes == {"note", "attachment"}

\* the k-th collection above c by parentCollectionID, NULL when there is none
RECURSIVE Ancestor(_, _, _)
Ancestor(parent, c, k) ==
    IF c \notin DOMAIN parent THEN NULL
    ELSE IF k = 0 THEN c
    ELSE Ancestor(parent, parent[c], k - 1)

\* no collection is above itself
Acyclic(parent) ==
    \A c \in DOMAIN parent :
        \A k \in 1..Cardinality(DOMAIN parent) : Ancestor(parent, c, k) # c

\* the contents of a database with k collections: each collection's
\* parentCollectionID (NULL, a collection, or k + 1, a collection that is not
\* there), and per item the collections it is linked to in collectionItems
Contents(k) ==
    {[parent |-> p, links |-> <<l1, l2, 1..Min(k, 1)>>] :
        p \in {q \in [1..k -> 0..(k + 1)] : Acyclic(q)},
        l1 \in SUBSET (1..k),
        l2 \in SUBSET (1..Min(k, 1))}

\* what is at database_path: a database file, one that another process (a
\* running Zotero) holds locked, a directory, or nothing
FileKinds == {"file", "locked", "directory", "absent"}

NoContents == [parent |-> <<>>, links |-> <<{}, {}, {}>>]

Databases(n) ==
    {[kind |-> "file", parent |-> c.parent, links |-> c.links] :
        c \in UNION {Contents(k) : k \in 0..n}}
    \cup {[kind |-> kd, parent |-> NoContents.parent, links |-> NoContents.links] :
            kd \in FileKinds \ {"file"}}

database_exists_unchecked(d) == TRUE

\* Path(database_path).exists(), os.path.exists(database_path)
database_exists(d) == d.kind # "absent"

FileNotFound == Exc("FileNotFoundError", "Zotero database file not found")

\* sqlite3.OperationalError, raised by connect for a directory and by execute
\* for a locked database
OperationalError(d) ==
    IF d.kind = "directory"
    THEN Exc("OperationalError", "unable to open database file")
    ELSE Exc("OperationalError", "database is locked")

\* whether a query on the database returns rows
readable(d) == d.kind = "file"

\* sqlite3.connect(self.database_path) (selector.py:53, 157, 210,
\* zotero_reader.py:63): the connections it opens, none when it raises, as it
\* does for a directory
connect(d) == IF d.kind = "directory" THEN 0 ELSE 1

closed_on_return(opened, e) == IF e = NoExc THEN opened ELSE 0

\* conn.close() in the finally clause of an operation (selector.py:89-90,
\* 183-184, 268-269, zotero_reader.py:114-115): the connections closed when
\* the try block has returned or has raised e
closed_in_finally(opened, e) == opened

\* an object that is not constructed
NoObject == [constructed |-> FALSE]

\* the elements of a set of numbers, ascending
RECURSIVE Ascending(_)
Ascending(S) ==
    IF S = {} THEN <<>>
    ELSE LET m == CHOOSE x \in S : \A y \in S : x <= y
         IN  <<m>> \o Ascending(S \ {m})

\* list.sort(key=...), sorted(..., key=...): stable insertion by rank
RECURSIVE sort_by(_, _)
sort_by(seq, rank) ==
    IF seq = <<>> THEN <<>>
    ELSE LET rest == sort_by(Tail(seq), rank)
             before == SelectSeq(rest, LAMBDA x : rank[x] < rank[Head(seq)])
             after == SelectSeq(rest, LAMBDA x : rank[x] >= rank[Head(seq)])
         IN  before \o <<Head(seq)>> \o after

\* selector.py:60-72: the collectionIDs in the order of the rows fetched
collection_rows(d) ==
    LET rank == [c \in DOMAIN d.parent |-> name_rank(CollectionNames[c])]
    IN  sort_by(Ascending(DOMAIN d.parent), rank)

parent_key_unjoined(d, c) ==
    IF d.parent[c] = NULL THEN None ELSE CollectionKeys[d.parent[c]]

\* selector.py:65-67: pc.key of the LEFT JOIN, None when no collection has
\* the parentCollectionID
parent_key(d, c) ==
    IF d.parent[c] \in DOMAIN d.parent THEN CollectionKeys[d.parent[c]] ELSE None

\* selector.py:16-28, 75-81: ZoteroCollection(key, name, parent_key)
ZoteroCollection(key, name, pkey) ==
    [key |-> key, name |-> name, parent_key |-> pkey, item_count |-> 0,
     children |-> <<>>, level |-> 0]

\* selector.py:95-103: the loop over self.collections.values()
RECURSIVE link_hierarchy(_, _, _)
link_hierarchy(cols, roots, rest) ==
    IF rest = <<>> THEN [collections |-> cols, root_collections |-> roots]
    ELSE LET k == Head(rest)
             pk == cols[k].parent_key
         IN  IF pk = None
             THEN link_hierarchy([cols EXCEPT ![k].level = 0], Append(roots, k),
                                 Tail(rest))
             ELSE IF pk \in DOMAIN cols
             THEN link_hierarchy([cols EXCEPT ![pk].children = Append(@, k),
                                              ![k].level = cols[pk].level + 1],
                                 roots, Tail(rest))
             ELSE link_hierarchy(cols, roots, Tail(rest))

\* selector.py:92-108
build_hierarchy(cols, order) ==
    LET linked == link_hierarchy(cols, <<>>, order)
        rank == [k \in DOMAIN cols |-> name_rank(cols[k].name)]
    IN  [collections |-> [k \in DOMAIN cols |->
                            [linked.collections[k] EXCEPT
                                !.children = sort_by(@, rank)]],
         root_collections |-> sort_by(linked.root_collections, rank)]

\* selector.py:110-134: the direct items of a collection that are neither
\* notes nor attachments
item_count(d, c) ==
    Cardinality({it \in DOMAIN Items :
                    c \in d.links[it] /\ Items[it].typeName \notin ExcludedTypes})

\* selector.py:51-90 on a database that can be read: the manager's fields
load_collections(d) ==
    LET order == [n \in DOMAIN collection_rows(d) |->
                    CollectionKeys[collection_rows(d)[n]]]
        ids == DOMAIN d.parent
        cols == [k \in {CollectionKeys[c] : c \in ids} |->
                   LET c == CHOOSE x \in ids : CollectionKeys[x] = k
                   IN  ZoteroCollection(k, CollectionNames[c], parent_key(d, c))]
        built == build_hierarchy(cols, order)
    IN  [constructed |-> TRUE,
         order |-> order,
         collections |-> [k \in DOMAIN cols |->
                            LET c == CHOOSE x \in ids : CollectionKeys[x] = k
                            IN  [built.collections[k] EXCEPT
                                    !.item_count = item_count(d, c)]],
         root_collections |-> built.root_collections]

RECURSIVE path_parts_appended(_, _, _)
path_parts_appended(m, current, parts) ==
    LET pk == m.collections[current].parent_key
    IN  IF pk # None /\ pk # "" /\ pk \in DOMAIN m.collections
        THEN path_parts_appended(m, pk, Append(parts, m.collections[pk].name))
        ELSE parts

\* selector.py:192-201: the names from the topmost collection reached down to
\* current
RECURSIVE path_parts(_, _, _)
path_parts(m, current, parts) ==
    LET pk == m.collections[current].parent_key
    IN  IF pk # None /\ pk # "" /\ pk \in DOMAIN m.collections
        THEN path_parts(m, pk, <<m.collections[pk].name>> \o parts)
        ELSE parts

PathSeparator == " / "

\* selector.py:186-203
get_collection_path(m, collection_key) ==
    IF collection_key \notin DOMAIN m.collections THEN ""
    ELSE join(PathSeparator,
              path_parts(m, collection_key, <<m.collections[collection_key].name>>))

item_collection_keys_with_ancestors(d, item_key) ==
    LET linked == {c \in DOMAIN d.parent :
                      \E it \in DOMAIN Items :
                          /\ Items[it].key = item_key
                          /\ \E below \in d.links[it] :
                                \E k \in 0..Cardinality(DOMAIN d.parent) :
                                    Ancestor(d.parent, below, k) = c}
        ids == Ascending(linked)
    IN  [n \in DOMAIN ids |-> CollectionKeys[ids[n]]]

\* selector.py:163-172: the keys of the collections linked to the item, in the
\* order of collectionItems' primary key
item_collection_keys(d, item_key) ==
    LET linked == {c \in DOMAIN d.parent :
                      \E it \in DOMAIN Items :
                          Items[it].key = item_key /\ c \in d.links[it]}
        ids == Ascending(linked)
    IN  [n \in DOMAIN ids |-> CollectionKeys[ids[n]]]

\* selector.py:155-184: the list returned, or the exception of the query
get_item_collection_paths(d, m, item_key) ==
    IF ~ readable(d) THEN [exc |-> OperationalError(d), value |-> <<>>]
    ELSE LET keys == item_collection_keys(d, item_key)
             paths == [n \in DOMAIN keys |-> get_collection_path(m, keys[n])]
         IN  [exc |-> NoExc, value |-> SelectSeq(paths, LAMBDA q : q # "")]

\* the item dict of a row: zotero_reader.py:91-109, selector.py:242-263
item_dict(it) ==
    [itemID |-> it, key |-> Items[it].key, typeName |-> Items[it].typeName,
     dateAdded |-> Items[it].dateAdded]

\* ORDER BY i.dateAdded DESC
by_date_added_desc(ids) ==
    LET rank == [it \in DOMAIN Items |-> 0 - Items[it].dateAdded]
    IN  sort_by(Ascending(ids), rank)

\* the elements of a sequence
Range(seq) == {seq[n] : n \in DOMAIN seq}

selected_items_per_link(d, collection_keys) ==
    LET pairs == {<<it, c>> \in (DOMAIN Items) \X (DOMAIN d.parent) :
                     /\ Items[it].typeName \notin ExcludedTypes
                     /\ c \in d.links[it]
                     /\ CollectionKeys[c] \in Range(collection_keys)}
        RECURSIVE rows(_)
        rows(ids) ==
            IF ids = <<>> THEN <<>>
            ELSE [n \in 1..Cardinality({q \in pairs : q[1] = Head(ids)}) |-> Head(ids)]
                 \o rows(Tail(ids))
    IN  rows(by_date_added_desc({q[1] : q \in pairs}))

\* selector.py:219-239: SELECT DISTINCT over columns of items and itemTypes
\* only, so one row per item however many of the collections hold it
selected_items(d, collection_keys) ==
    by_date_added_desc(
        {it \in DOMAIN Items :
            /\ Items[it].typeName \notin ExcludedTypes
            /\ \E c \in d.links[it] : CollectionKeys[c] \in Range(collection_keys)})

\* selector.py:205-269
get_collection_items(d, collection_keys) ==
    IF collection_keys = <<>> THEN [exc |-> NoExc, value |-> <<>>, opened |-> 0]
    ELSE IF ~ readable(d)
    THEN [exc |-> OperationalError(d), value |-> <<>>, opened |-> connect(d)]
    ELSE LET ids == selected_items(d, collection_keys)
         IN  [exc |-> NoExc, value |-> [n \in DOMAIN ids |-> item_dict(ids[n])],
              opened |-> connect(d)]

\* zotero_reader.py:61-115
get_all_items(d) ==
    IF ~ readable(d) THEN [exc |-> OperationalError(d), value |-> <<>>]
    ELSE LET ids == by_date_added_desc(
                        {it \in DOMAIN Items :
                            Items[it].typeName \notin ExcludedTypes})
         IN  [exc |-> NoExc, value |-> [n \in DOMAIN ids |-> item_dict(ids[n])]]

\* str.lower() on the letters the names of the model use
lower_char(c) ==
    CASE c = "A" -> "a" [] c = "B" -> "b" [] c = "M" -> "m" [] c = "T" -> "t"
      [] OTHER -> c

RECURSIVE lower(_)
lower(s) == IF s = "" THEN "" ELSE lower_char(Take(s, 1)) \o lower(Drop(s, 1))

\* selector.py:144-153
find_collections(m, search_term) ==
    LET rank == [k \in DOMAIN m.collections |-> name_rank(m.collections[k].name)]
        found == SelectSeq(m.order,
                           LAMBDA k : Occurrences(lower(m.collections[k].name),
                                                  lower(search_term)) # {})
    IN  sort_by(found, rank)

-----------------------------------------------------------------------------
(* analyze_paper: analyzer.py:122-210 *)

title_of(paper) == get(paper, "title", TitleUnknown)

authors_of(paper) == format_authors(get(paper, "creators", <<>>))

original_abstract(paper) == get(paper, "abstractNote", "")

\* analyzer.py:176-179
NoAbstractAvailable == "no abstract available"

CannotAnalyse == "cannot analyse - no text content"

NoTextContent == "no text content"

\* analyzer.py:194, 206
NoAbstract == "no abstract"

\* analyzer.py:207-208
AnalysisFailed == "analysis failed: "

\* lines 171-180
no_text_result(paper, translated, collection_path) ==
    PaperAnalysis([title |-> title_of(paper), translated_title |-> translated,
                   authors |-> authors_of(paper), collection_path |-> collection_path,
                   abstract |-> NoAbstractAvailable,
                   innovation_points |-> CannotAnalyse, summary |-> CannotAnalyse,
                   error_message |-> NoTextContent]).value

\* lines 189-197
success_result(paper, translated, collection_path, analysis_result) ==
    PaperAnalysis([title |-> title_of(paper), translated_title |-> translated,
                   authors |-> authors_of(paper), collection_path |-> collection_path,
                   abstract |-> get(analysis_result, "abstract",
                                    IF original_abstract(paper) # ""
                                    THEN original_abstract(paper) ELSE NoAbstract),
                   innovation_points |-> get(analysis_result, "innovation_points", ""),
                   summary |-> get(analysis_result, "summary", "")]).value

failed_result_no_message(paper, translated, collection_path, e) ==
    PaperAnalysis([title |-> title_of(paper), translated_title |-> translated,
                   authors |-> authors_of(paper), collection_path |-> collection_path,
                   abstract |-> IF original_abstract(paper) # ""
                                THEN original_abstract(paper) ELSE NoAbstract,
                   innovation_points |-> AnalysisFailed \o str(e),
                   summary |-> AnalysisFailed \o str(e)]).value

\* lines 199-210
failed_result(paper, translated, collection_path, e) ==
    PaperAnalysis([title |-> title_of(paper), translated_title |-> translated,
                   authors |-> authors_of(paper), collection_path |-> collection_path,
                   abstract |-> IF original_abstract(paper) # ""
                                THEN original_abstract(paper) ELSE NoAbstract,
                   innovation_points |-> AnalysisFailed \o str(e),
                   summary |-> AnalysisFailed \o str(e),
                   error_message |-> str(e)]).value

\* line 183
analysis_text(paper, text) == IF text # "" THEN text ELSE original_abstract(paper)

\* analyzer.py:149, the path of a record in no collection
UncategorizedPath == "uncategorized"

\* analyzer.py:152, the path of a record whose lookup raised
UnknownPath == "unknown"

collection_path_of_unmarked(paper) ==
    IF ~ manager.constructed \/ get(paper, "key", "") = "" THEN ""
    ELSE LET found == get_item_collection_paths(db, manager, paper.key)
         IN  IF found.exc # NoExc \/ found.value = <<>> THEN UncategorizedPath
             ELSE join(" | ", found.value)

\* lines 145-152; analyze_papers_batch calls analyze_paper without a
\* collection manager (main.py:125, simple_analyzer.py:125)
collection_path_of(paper) ==
    IF ~ manager.constructed \/ get(paper, "key", "") = "" THEN ""
    ELSE LET found == get_item_collection_paths(db, manager, paper.key)
         IN  IF found.exc # NoExc THEN UnknownPath
             ELSE IF found.value = <<>> THEN UncategorizedPath
             ELSE join(" | ", found.value)

-----------------------------------------------------------------------------
(* analyze_papers_batch: main.py:100-160, simple_analyzer.py:95-159 *)

\* simple_analyzer.py:120: batch = papers[i:i + batch_size], start the
\* 0-based i of the outer loop
batch(start) == SubSeq(papers, start + 1, Min(start + batch_size, Len(papers)))

\* simple_analyzer.py:119-122: the records in the order the loops take them,
\* for i in range(start, total_papers, batch_size) and paper in batch;
\* main.py:122 takes them one by one, as batches of one do
RECURSIVE batches_from(_)
batches_from(start) ==
    IF start >= Len(papers) THEN <<>>
    ELSE batch(start) \o batches_from(start + batch_size)

records == batches_from(0)

\* the record in hand
paper == records[i]

\* an entry of the log: a service call ("translate", "analyze") with what it
\* delivered and the text returned or the message of the exception raised, or
\* a sleep ("retry_sleep", "pace") with its seconds
Event(op, out, msg, secs) == [op |-> op, out |-> out, msg |-> msg, secs |-> secs]

Logged(ev) == log' = Append(log, ev)

\* the events of a log with the given op
RECURSIVE Events(_, _)
Events(lg, op) ==
    IF lg = <<>> THEN <<>>
    ELSE (IF Head(lg).op = op THEN <<Head(lg)>> ELSE <<>>) \o Events(Tail(lg), op)

\* what the service did for a record: whether its translation call returned
\* or raised, and whether its analysis calls all returned the full JSON
\* object, all raised, or neither
Summary(lg) ==
    LET t == Events(lg, "translate")
        a == Events(lg, "analyze")
    IN  [translate |-> IF t = <<>> THEN "none" ELSE t[1].out,
         analyze |-> IF a = <<>> THEN "none"
                     ELSE IF \A k \in 1..Len(a) : a[k].out = "json" THEN "json"
                     ELSE IF \A k \in 1..Len(a) : a[k].out = "raise" THEN "raise"
                     ELSE "mixed"]

\* the locals of analyze_paper and _call_llm_analysis before they are set
FreshLocals ==
    /\ translated_title' = ""
    /\ full_text' = ""
    /\ attempt' = 0
    /\ json_bound' = FALSE

AppendedPacedOnSuccess(analysis) ==
    /\ analyses' = Append(analyses, analysis)
    /\ history' = Append(history, Summary(log'))
    /\ pc' = IF delay > 0 /\ analysis.error_message = "" /\ i < Len(records)
             THEN "pace" ELSE "loop"
    /\ FreshLocals

\* main.py:126-135: analyze_paper has returned analysis; it is appended, and
\* the runner sleeps when a delay is configured
Appended(analysis) ==
    /\ analyses' = Append(analyses, analysis)
    /\ history' = Append(history, Summary(log'))
    /\ pc' = IF delay > 0 THEN "pace" ELSE "loop"
    /\ FreshLocals

\* main.py:144-152: the keyword arguments of the handler's PaperAnalysis(...)
RECURSIVE creator_names(_)
creator_names(creators) ==
    IF creators = <<>> THEN <<>>
    ELSE <<get(Head(creators), "name", "")>> \o creator_names(Tail(creators))

error_analysis(p, e) ==
    PaperAnalysis([title |-> get(p, "title", TitleUnknown),
                   authors |-> join("; ", creator_names(get(p, "creators", <<>>))),
                   abstract |-> get(p, "abstractNote", ""),
                   innovation_points |-> AnalysisFailed \o str(e),
                   summary |-> AnalysisFailed \o str(e),
                   original_abstract |-> get(p, "abstractNote", ""),
                   error_message |-> str(e)])

\* the places where the runner is blocked in a call or a sleep, and a
\* KeyboardInterrupt can be raised in it
InterruptPoints == {"translate", "extract", "llm", "retry_sleep", "pace"}

\* main.py:122-125, analyzer.py:135-142 and 272-273: the next record is taken
\* and its analysis starts
BeginRecord ==
    /\ pc = "loop"
    /\ i < Len(records)
    /\ i' = i + 1
    /\ log' = <<>>
    /\ pc' = IF needs_translation(title_of(records[i + 1])) THEN "translate"
             ELSE "extract"
    /\ FreshLocals
    /\ UNCHANGED <<papers, delay, analyses, history, interrupted, exc, probe, db, manager, reader, call, batch_size, path_locals, connections>>

TranslateCallUnguarded ==
    /\ pc = "translate"
    /\ \E outcome \in TranslationOutcomes :
          /\ translated_title' = translation_result(outcome)
          /\ Logged(Event("translate",
                          IF outcome.exc # NoExc THEN "raise" ELSE "return",
                          IF outcome.exc # NoExc THEN str(outcome.exc)
                          ELSE outcome.text, 0))
          /\ pc' = IF outcome.exc # NoExc THEN "except" ELSE "extract"
          /\ exc' = outcome.exc
    /\ UNCHANGED <<papers, delay, analyses, i, full_text, attempt, json_bound,
                   history, interrupted, probe, db, manager, reader, call, batch_size, path_locals, connections>>

\* analyzer.py:275-300: the translation call returns or raises
TranslateCall ==
    /\ pc = "translate"
    /\ \E outcome \in TranslationOutcomes :
          /\ translated_title' = translation_result(outcome)
          /\ Logged(Event("translate",
                          IF outcome.exc # NoExc THEN "raise" ELSE "return",
                          IF outcome.exc # NoExc THEN str(outcome.exc)
                          ELSE outcome.text, 0))
    /\ pc' = "extract"
    /\ UNCHANGED <<papers, delay, analyses, i, full_text, attempt, json_bound,
                   history, interrupted, exc, probe, db, manager, reader, call, batch_size, path_locals, connections>>

\* analyzer.py:144-183 and 306: collection path, full text, the check for
\* text content
ExtractText ==
    /\ pc = "extract"
    /\ UNCHANGED <<papers, delay, i, log, interrupted, probe, db, manager, reader, call, batch_size, path_locals, connections>>
    /\ LET found == find_full_text(get(paper, "attachments", <<>>), zotero_data_dir)
       IN  IF found.exc # NoExc
           THEN /\ pc' = "except"
                /\ exc' = found.exc
                /\ FreshLocals
                /\ UNCHANGED <<analyses, history>>
           ELSE IF found.value = "" /\ original_abstract(paper) = ""
           THEN /\ Appended(no_text_result(paper, translated_title,
                                           collection_path_of(paper)))
                /\ UNCHANGED exc
           ELSE /\ full_text' = found.value
                /\ pc' = "llm"
                /\ attempt' = 0
                /\ json_bound' = FALSE
                /\ UNCHANGED <<translated_title, analyses, history, exc>>

\* analyzer.py:357 and 404-405: the loop goes to pass att, or is exhausted
\* and the function raises
NextPass(att, bound) ==
    IF att < max_retries
    THEN /\ attempt' = att
         /\ json_bound' = bound
         /\ pc' = "llm"
         /\ UNCHANGED <<translated_title, full_text, analyses, history>>
    ELSE Appended(failed_result(paper, translated_title, collection_path_of(paper),
                                MaxRetriesReached))

\* analyzer.py:186-210 and 358-402: one generation call of the analysis and
\* what follows it up to the next call, sleep or result
AnalysisCall ==
    /\ pc = "llm"
    /\ \E outcome \in AnalysisOutcomes :
          \E step \in {llm_attempt(attempt, json_bound, outcome,
                                   truncate_text(analysis_text(paper, full_text)))} :
              /\ Logged(Event("analyze", step.seen,
                              IF outcome.exc # NoExc THEN str(outcome.exc)
                              ELSE outcome.text, 0))
              /\ IF step.tag = "return"
                 THEN Appended(success_result(paper, translated_title,
                                              collection_path_of(paper), step.value))
                 ELSE IF step.tag = "raise"
                 THEN Appended(failed_result(paper, translated_title,
                                             collection_path_of(paper), step.exc))
                 ELSE IF step.tag = "sleep"
                 THEN /\ pc' = "retry_sleep"
                      /\ json_bound' = step.bound
                      /\ UNCHANGED <<translated_title, full_text, attempt, analyses,
                                     history>>
                 ELSE NextPass(attempt + 1, step.bound)
    /\ UNCHANGED <<papers, delay, i, interrupted, exc, probe, db, manager, reader, call, batch_size, path_locals, connections>>

\* analyzer.py:400: time.sleep(2), then the next pass
RetrySleep ==
    /\ pc = "retry_sleep"
    /\ Logged(Event("retry_sleep", "", "", RetrySleepSeconds))
    /\ NextPass(attempt + 1, json_bound)
    /\ UNCHANGED <<papers, delay, i, interrupted, exc, probe, db, manager, reader, call, batch_size, path_locals, connections>>

\* main.py:134-135: time.sleep(config.delay)
PacingSleep ==
    /\ pc = "pace"
    /\ Logged(Event("pace", "", "", delay))
    /\ pc' = "loop"
    /\ UNCHANGED <<papers, delay, analyses, i, translated_title, full_text, attempt,
                   json_bound, history, interrupted, exc, probe, db, manager, reader, call, batch_size, path_locals, connections>>

\* main.py:141-157: except Exception
ExceptException ==
    /\ pc = "except"
    /\ LET made == error_analysis(paper, exc)
       IN  IF made.exc # NoExc
           THEN /\ pc' = "crashed"
                /\ exc' = made.exc
                /\ UNCHANGED <<analyses, history>>
           ELSE /\ analyses' = Append(analyses, made.value)
                /\ history' = Append(history, Summary(log))
                /\ pc' = "loop"
                /\ exc' = NoExc
    /\ UNCHANGED <<papers, delay, i, translated_title, full_text, attempt, json_bound,
                   log, interrupted, probe, db, manager, reader, call, batch_size, path_locals, connections>>

KeyboardInterruptSwallowed ==
    /\ pc \in InterruptPoints
    /\ interrupted' = <<i, pc>>
    /\ pc' = "loop"
    /\ FreshLocals
    /\ UNCHANGED <<papers, delay, analyses, i, log, history, exc, probe, db, manager, reader, call, batch_size, path_locals, connections>>

KeyboardInterruptAsFailure ==
    /\ pc \in InterruptPoints
    /\ interrupted' = <<i, pc>>
    /\ pc' = "returned"
    /\ FreshLocals
    /\ IF pc = "pace" THEN UNCHANGED <<analyses, history>>
       ELSE /\ analyses' = Append(analyses,
                                  failed_result(paper, "", "",
                                                Exc("KeyboardInterrupt", "")))
            /\ history' = Append(history, Summary(log))
    /\ UNCHANGED <<papers, delay, i, log, exc, probe, db, manager, reader, call, batch_size, path_locals, connections>>

\* main.py:137-139: except KeyboardInterrupt
KeyboardInterrupt ==
    /\ pc \in InterruptPoints
    /\ interrupted' = <<i, pc>>
    /\ pc' = "returned"
    /\ FreshLocals
    /\ UNCHANGED <<papers, delay, analyses, i, log, history, exc, probe, db, manager, reader, call, batch_size, path_locals, connections>>

\* main.py:159-160: the loop is over
ReturnAnalyses ==
    /\ pc = "loop"
    /\ i = Len(records)
    /\ pc' = "returned"
    /\ UNCHANGED <<papers, delay, analyses, i, translated_title, full_text, attempt,
                   json_bound, log, history, interrupted, exc, probe, db, manager, reader, call, batch_size, path_locals, connections>>

\* the batches of at most n records
Batches(n) == UNION {[1..k -> PaperSamples] : k \in 0..n}

NoProbe == [title |-> <<>>, verdict |-> "unset"]

\* no database file at database_path
NoDatabase == [kind |-> "absent", parent |-> NoContents.parent, links |-> NoContents.links]

\* a call of an operation: its arguments, the exception it raised or the value
\* it returned, and the database connections it opened
Call(op, args, e, value, opened) ==
    [op |-> op, args |-> args, exc |-> e, value |-> value, opened |-> opened]

NoCall == Call("none", <<>>, NoExc, None, 0)

\* get_collection_path is not running
NoLocals == [key |-> None, current |-> None, path_parts |-> <<>>]

Init ==
    /\ papers \in Batches(MaxPapers)
    /\ delay \in {0, 1}
    /\ analyses = <<>>
    /\ pc = "loop"
    /\ i = 0
    /\ translated_title = ""
    /\ full_text = ""
    /\ attempt = 0
    /\ json_bound = FALSE
    /\ log = <<>>
    /\ history = <<>>
    /\ interrupted = <<>>
    /\ exc = NoExc
    /\ probe = NoProbe
    /\ db = NoDatabase
    /\ manager = NoObject
    /\ reader = NoObject
    /\ call = NoCall
    /\ batch_size = 1
    /\ path_locals = NoLocals
    /\ connections = 0

Next ==
    \/ BeginRecord
    \/ TranslateCall
    \/ ExtractText
    \/ AnalysisCall
    \/ RetrySleep
    \/ PacingSleep
    \/ ExceptException
    \/ KeyboardInterrupt
    \/ ReturnAnalyses

Spec == Init /\ [][Next]_vars

-----------------------------------------------------------------------------
(* Titles for _is_english_title: a title is typed character by character and
   classified *)

\* an ASCII letter, a CJK letter, a digit
TitleChars == {97, 28145, 49}

TypeChar ==
    /\ Len(probe.title) < MaxTitleLen
    /\ \E c \in TitleChars : probe' = [title |-> Append(probe.title, c), verdict |-> "unset"]
    /\ UNCHANGED batch_vars

Classify ==
    /\ probe.verdict = "unset"
    /\ probe' = [probe EXCEPT !.verdict = IF is_english_title(probe.title)
                                          THEN "english" ELSE "other"]
    /\ UNCHANGED batch_vars

InitTitle ==
    /\ papers = <<>>
    /\ delay = 0
    /\ analyses = <<>>
    /\ pc = "idle"
    /\ i = 0
    /\ translated_title = ""
    /\ full_text = ""
    /\ attempt = 0
    /\ json_bound = FALSE
    /\ log = <<>>
    /\ history = <<>>
    /\ interrupted = <<>>
    /\ exc = NoExc
    /\ probe = NoProbe
    /\ db = NoDatabase
    /\ manager = NoObject
    /\ reader = NoObject
    /\ call = NoCall
    /\ batch_size = 1
    /\ path_locals = NoLocals
    /\ connections = 0

NextTitle == TypeChar \/ Classify

SpecTitle == InitTitle /\ [][NextTitle]_vars

-----------------------------------------------------------------------------
(* The attachments of a record: _get_attachment_path and the loop of
   analyze_paper over them, called on attachment lists of every kind *)

\* longest attachment list of a record
MaxAttachments == 3

AttachmentSamples ==
    {AttPdf, AttScan, AttLocked, AttHtml, AttLinked, AttGone, AttNoKey, AttNoPath}

\* zotero_data_dir: None, empty, the storage root, a directory without files
DataDirs == {None, "", zotero_data_dir, "/elsewhere"}

\* analyzer.py:227-253
ResolveAttachment ==
    /\ pc = "attach"
    /\ call.op = "none"
    /\ \E attachment \in AttachmentSamples, data_dir \in DataDirs :
          \E r \in {get_attachment_path(attachment, data_dir)} :
              call' = Call("get_attachment_path", <<attachment, data_dir>>,
                           r.exc, r.value, 0)
    /\ UNCHANGED <<loop_vars, probe, db, manager, reader, path_locals, connections>>

\* analyzer.py:155-167
FindFullText ==
    /\ pc = "attach"
    /\ call.op = "none"
    /\ \E attachments \in UNION {[1..k -> AttachmentSamples] : k \in 0..MaxAttachments},
          data_dir \in DataDirs :
          \E r \in {find_full_text(attachments, data_dir)} :
              call' = Call("find_full_text", <<attachments, data_dir>>, r.exc,
                           [text |-> r.value, extracted |-> r.extracted], 0)
    /\ UNCHANGED <<loop_vars, probe, db, manager, reader, path_locals, connections>>

InitAttach ==
    /\ papers = <<>>
    /\ delay = 0
    /\ analyses = <<>>
    /\ pc = "attach"
    /\ i = 0
    /\ translated_title = ""
    /\ full_text = ""
    /\ attempt = 0
    /\ json_bound = FALSE
    /\ log = <<>>
    /\ history = <<>>
    /\ interrupted = <<>>
    /\ exc = NoExc
    /\ probe = NoProbe
    /\ db = NoDatabase
    /\ manager = NoObject
    /\ reader = NoObject
    /\ call = NoCall
    /\ batch_size = 1
    /\ path_locals = NoLocals
    /\ connections = 0

NextAttach == ResolveAttachment \/ FindFullText

SpecAttach == InitAttach /\ [][NextAttach]_vars

-----------------------------------------------------------------------------
(* simple_analyzer.analyze_papers_batch: the runner with its batch_size and
   delay_between_calls parameters *)

\* largest batch_size
MaxBatchSize == 2

InitBatch ==
    /\ papers \in Batches(MaxPapers)
    /\ delay \in {0 - 1, 0, 1}
    /\ analyses = <<>>
    /\ pc = "loop"
    /\ i = 0
    /\ translated_title = ""
    /\ full_text = ""
    /\ attempt = 0
    /\ json_bound = FALSE
    /\ log = <<>>
    /\ history = <<>>
    /\ interrupted = <<>>
    /\ exc = NoExc
    /\ probe = NoProbe
    /\ db = NoDatabase
    /\ manager = NoObject
    /\ reader = NoObject
    /\ call = NoCall
    /\ batch_size \in 1..MaxBatchSize
    /\ path_locals = NoLocals
    /\ connections = 0

SpecBatch == InitBatch /\ [][Next]_vars

-----------------------------------------------------------------------------
(* filter_papers: main.py:63-97, simple_analyzer.py:53-92 *)

\* longest list handed to filter_papers
MaxFiltered == 3

\* largest config.limit
MaxLimit == 2

\* the records filtered: a title that holds the keyword in capitals, one that
\* holds it in small letters, one without it, a record without title and one
\* without item type
FilterSamples ==
    {[key |-> "F1", typeName |-> "journalArticle", title |-> <<68, 76>>],
     [key |-> "F2", typeName |-> "book", title |-> <<97, 100, 108>>],
     [key |-> "F3", typeName |-> "journalArticle", title |-> <<82>>],
     [key |-> "F4", typeName |-> "journalArticle"],
     [key |-> "F5", title |-> <<100, 76, 50>>]}

\* config.include_types: None or empty, or a list of type names
TypeLists == {<<>>, <<"journalArticle">>, <<"book", "thesis">>}

\* config.exclude_keywords: none, "dl", "x" and "Dl", the empty keyword
KeywordLists == {<<>>, <<<<100, 108>>>>, <<<<120>>, <<68, 108>>>>, <<<<>>>>}

\* config.limit: None (written <<>>) or an integer; --limit takes any integer
\* (main.py:310)
Limits == {<<>>} \cup {<<n>> : n \in (0 - 1)..MaxLimit}

\* str.lower() on a title's code points
lower_code(c) == IF c \in 65..90 THEN c + 32 ELSE c

lower_title(t) == [k \in DOMAIN t |-> lower_code(t[k])]

\* keyword in title
contains(t, keyword) ==
    \E k \in 0..(Len(t) - Len(keyword)) : SubSeq(t, k + 1, k + Len(keyword)) = keyword

\* seq[:n]
slice_to(seq, n) ==
    IF n >= 0 THEN SubSeq(seq, 1, Min(n, Len(seq)))
    ELSE SubSeq(seq, 1, Len(seq) + n)

\* main.py:77-79
filter_by_type(ps, include_types) ==
    IF include_types # <<>>
    THEN SelectSeq(ps, LAMBDA q : get(q, "typeName", None) \in Range(include_types))
    ELSE ps

\* main.py:82-90
filter_by_keyword(ps, exclude_keywords) ==
    IF exclude_keywords # <<>>
    THEN SelectSeq(ps, LAMBDA q :
            ~ \E n \in DOMAIN exclude_keywords :
                  contains(lower_title(get(q, "title", <<>>)),
                           lower_title(exclude_keywords[n])))
    ELSE ps

cap_inclusive(ps, limit) ==
    IF limit # <<>> /\ limit[1] # 0 /\ Len(ps) > limit[1]
    THEN slice_to(ps, limit[1] + 1)
    ELSE ps

\* main.py:93-95
cap(ps, limit) ==
    IF limit # <<>> /\ limit[1] # 0 /\ Len(ps) > limit[1]
    THEN slice_to(ps, limit[1])
    ELSE ps

filter_papers_cap_first(ps, include_types, exclude_keywords, limit) ==
    filter_by_keyword(filter_by_type(cap(ps, limit), include_types), exclude_keywords)

\* main.py:63-97
filter_papers(ps, include_types, exclude_keywords, limit) ==
    cap(filter_by_keyword(filter_by_type(ps, include_types), exclude_keywords), limit)

\* one call of filter_papers on the list, under some configuration
FilterPapers ==
    /\ pc = "filter"
    /\ call.op = "none"
    /\ \E include_types \in TypeLists, exclude_keywords \in KeywordLists, limit \in Limits :
          call' = Call("filter_papers", <<papers, include_types, exclude_keywords, limit>>,
                       NoExc,
                       filter_papers(papers, include_types, exclude_keywords, limit), 0)
    /\ UNCHANGED <<loop_vars, probe, db, manager, reader, path_locals, connections>>

InitFilter ==
    /\ papers \in UNION {[1..k -> FilterSamples] : k \in 0..MaxFiltered}
    /\ delay = 0
    /\ analyses = <<>>
    /\ pc = "filter"
    /\ i = 0
    /\ translated_title = ""
    /\ full_text = ""
    /\ attempt = 0
    /\ json_bound = FALSE
    /\ log = <<>>
    /\ history = <<>>
    /\ interrupted = <<>>
    /\ exc = NoExc
    /\ probe = NoProbe
    /\ db = NoDatabase
    /\ manager = NoObject
    /\ reader = NoObject
    /\ call = NoCall
    /\ batch_size = 1
    /\ path_locals = NoLocals
    /\ connections = 0

NextFilter == FilterPapers

SpecFilter == InitFilter /\ [][NextFilter]_vars

-----------------------------------------------------------------------------
(* analyze_paper called with a collection manager: one record, analysed with
   or without a manager, over a database that can be read or is locked *)

\* two collections, B below M; P1 is in both, P2 in none
SampleDb == [kind |-> "file", parent |-> <<NULL, 1>>, links |-> <<{1, 2}, {}, {1}>>]

InitPaper ==
    /\ papers \in [1..1 -> PaperSamples]
    /\ delay \in {0, 1}
    /\ analyses = <<>>
    /\ pc = "loop"
    /\ i = 0
    /\ translated_title = ""
    /\ full_text = ""
    /\ attempt = 0
    /\ json_bound = FALSE
    /\ log = <<>>
    /\ history = <<>>
    /\ interrupted = <<>>
    /\ exc = NoExc
    /\ probe = NoProbe
    /\ db \in {SampleDb, [SampleDb EXCEPT !.kind = "locked"]}
    /\ manager \in {NoObject, load_collections(SampleDb)}
    /\ reader = NoObject
    /\ call = NoCall
    /\ batch_size = 1
    /\ path_locals = NoLocals
    /\ connections = 0

SpecPaper == InitPaper /\ [][Next]_vars

\* the runner is one thread: a call that was issued returns or raises, a
\* sleep ends, and the statement that follows is executed
InitPaperLive ==
    /\ InitPaper
    /\ delay = 1
    /\ db = SampleDb
    /\ manager = NoObject

SpecPaperLive == InitPaperLive /\ [][Next]_vars /\ WF_vars(Next)

-----------------------------------------------------------------------------
(* The Record Store Reader and the Collection Resolver: LocalZoteroReader and
   CollectionManager are constructed on a database and their operations
   called *)

NewCollectionManagerRepairing ==
    /\ pc = "store"
    /\ ~ manager.constructed
    /\ database_exists(db)
    /\ readable(db)
    /\ manager' = load_collections(db)
    /\ db' = [db EXCEPT !.parent = [c \in DOMAIN db.parent |->
                                     IF db.parent[c] \in DOMAIN db.parent
                                     THEN db.parent[c] ELSE NULL]]
    /\ call' = Call("CollectionManager", <<>>, NoExc, None, 1)
    /\ UNCHANGED <<loop_vars, probe, reader, path_locals, connections>>

\* selector.py:34-49: CollectionManager(database_path)
NewCollectionManager ==
    /\ pc = "store"
    /\ ~ manager.constructed
    /\ IF ~ database_exists(db)
       THEN /\ call' = Call("CollectionManager", <<>>, FileNotFound, None, 0)
            /\ UNCHANGED manager
       ELSE IF ~ readable(db)
       THEN /\ call' = Call("CollectionManager", <<>>, OperationalError(db), None,
                            connect(db))
            /\ UNCHANGED manager
       ELSE /\ manager' = load_collections(db)
            /\ call' = Call("CollectionManager", <<>>, NoExc, None, connect(db))
    /\ connections' = connections + call'.opened
                      - closed_in_finally(call'.opened, call'.exc)
    /\ UNCHANGED <<loop_vars, probe, db, reader, path_locals>>

\* zotero_reader.py:12-27: LocalZoteroReader(database_path)
NewZoteroReader ==
    /\ pc = "store"
    /\ ~ reader.constructed
    /\ IF ~ database_exists(db)
       THEN /\ call' = Call("LocalZoteroReader", <<>>, FileNotFound, None, 0)
            /\ UNCHANGED reader
       ELSE /\ reader' = [constructed |-> TRUE]
            /\ call' = Call("LocalZoteroReader", <<>>, NoExc, None, 0)
    /\ UNCHANGED <<loop_vars, probe, db, manager, path_locals, connections>>

\* zotero_reader.py:61-115
GetAllItems ==
    /\ pc = "store"
    /\ reader.constructed
    /\ \E r \in {get_all_items(db)} :
          call' = Call("get_all_items", <<>>, r.exc, r.value, connect(db))
    /\ connections' = connections + call'.opened
                      - closed_in_finally(call'.opened, call'.exc)
    /\ UNCHANGED <<loop_vars, probe, db, manager, reader, path_locals>>

\* the keys a caller may ask about: those of the database and one of no
\* collection
AskedKeys == {CollectionKeys[c] : c \in DOMAIN db.parent} \cup {"ZZ"}

\* selector.py:186-203
GetCollectionPath ==
    /\ pc = "store"
    /\ manager.constructed
    /\ \E k \in AskedKeys :
          call' = Call("get_collection_path", <<k>>, NoExc,
                       get_collection_path(manager, k), 0)
    /\ UNCHANGED <<loop_vars, probe, db, manager, reader, path_locals, connections>>

\* selector.py:155-184
GetItemCollectionPaths ==
    /\ pc = "store"
    /\ manager.constructed
    /\ \E k \in {"P1", "P2", "N1", "XX"} :
          \E r \in {get_item_collection_paths(db, manager, k)} :
              call' = Call("get_item_collection_paths", <<k>>, r.exc, r.value,
                           connect(db))
    /\ connections' = connections + call'.opened
                      - closed_in_finally(call'.opened, call'.exc)
    /\ UNCHANGED <<loop_vars, probe, db, manager, reader, path_locals>>

\* the lists of collection keys asked for: none, one, or two (twice the same
\* among them)
KeyLists ==
    {<<>>} \cup {<<a>> : a \in AskedKeys} \cup {<<a, b>> : a, b \in AskedKeys \ {"ZZ"}}

\* selector.py:205-269
GetCollectionItems ==
    /\ pc = "store"
    /\ manager.constructed
    /\ \E keys \in KeyLists :
          \E r \in {get_collection_items(db, keys)} :
              call' = Call("get_collection_items", keys, r.exc, r.value, r.opened)
    /\ connections' = connections + call'.opened
                      - closed_in_finally(call'.opened, call'.exc)
    /\ UNCHANGED <<loop_vars, probe, db, manager, reader, path_locals>>

\* selector.py:144-153
FindCollections ==
    /\ pc = "store"
    /\ manager.constructed
    /\ \E term \in {"", "a", "B", "zz"} :
          call' = Call("find_collections", <<term>>, NoExc,
                       find_collections(manager, term), 0)
    /\ UNCHANGED <<loop_vars, probe, db, manager, reader, path_locals, connections>>

InitStore ==
    /\ papers = <<>>
    /\ delay = 0
    /\ analyses = <<>>
    /\ pc = "store"
    /\ i = 0
    /\ translated_title = ""
    /\ full_text = ""
    /\ attempt = 0
    /\ json_bound = FALSE
    /\ log = <<>>
    /\ history = <<>>
    /\ interrupted = <<>>
    /\ exc = NoExc
    /\ probe = NoProbe
    /\ db \in Databases(MaxCollections)
    /\ manager = NoObject
    /\ reader = NoObject
    /\ call = NoCall
    /\ batch_size = 1
    /\ path_locals = NoLocals
    /\ connections = 0

NextStore ==
    \/ NewCollectionManager
    \/ NewZoteroReader
    \/ GetAllItems
    \/ GetCollectionPath
    \/ GetItemCollectionPaths
    \/ GetCollectionItems
    \/ FindCollections

SpecStore == InitStore /\ [][NextStore]_vars

\* the operations called on objects constructed earlier, while the database
\* is as it was, is held locked by a running Zotero, or has been replaced
InitLocked ==
    /\ papers = <<>>
    /\ delay = 0
    /\ analyses = <<>>
    /\ pc = "store"
    /\ i = 0
    /\ translated_title = ""
    /\ full_text = ""
    /\ attempt = 0
    /\ json_bound = FALSE
    /\ log = <<>>
    /\ history = <<>>
    /\ interrupted = <<>>
    /\ exc = NoExc
    /\ probe = NoProbe
    /\ db \in {[SampleDb EXCEPT !.kind = kd] : kd \in {"file", "locked", "directory"}}
    /\ manager \in {NoObject, load_collections(SampleDb)}
    /\ reader \in {NoObject, [constructed |-> TRUE]}
    /\ call = NoCall
    /\ batch_size = 1
    /\ path_locals = NoLocals
    /\ connections = 0

SpecLocked == InitLocked /\ [][NextStore]_vars

-----------------------------------------------------------------------------
(* get_collection_path, pass by pass of its loop, on snapshots whose parent
   links are arbitrary: chains of every name order, dangling parents, and
   cycles, which the schema does not exclude *)

\* most collections of such a snapshot
MaxForest == 3

\* longest path_parts the model follows the loop to
MaxPathParts == 5

Forests(n) ==
    {[kind |-> "file", parent |-> p, links |-> NoContents.links] :
        p \in UNION {[1..k -> 0..(k + 1)] : k \in 0..n}}

\* selector.py:188-193: the test for an unknown key, path_parts =
\* [collection.name] and current = collection
PathBegin ==
    /\ pc = "store"
    /\ manager.constructed
    /\ \E collection_key \in AskedKeys :
          IF collection_key \notin DOMAIN manager.collections
          THEN /\ call' = Call("get_collection_path", <<collection_key>>, NoExc, "", 0)
               /\ UNCHANGED <<pc, path_locals>>
          ELSE /\ pc' = "path_loop"
               /\ path_locals' =
                     [key |-> collection_key, current |-> collection_key,
                      path_parts |-> <<manager.collections[collection_key].name>>]
               /\ call' = NoCall
    /\ UNCHANGED <<papers, delay, analyses, i, translated_title, full_text, attempt,
                   json_bound, log, history, interrupted, exc, probe, db, manager,
                   reader, batch_size, connections>>

\* selector.py:195-197: whether the loop makes a pass: current has a
\* parent_key and the collection of that key is loaded
has_loaded_parent(m, current) ==
    LET pk == m.collections[current].parent_key
    IN  pk # None /\ pk # "" /\ pk \in DOMAIN m.collections

\* selector.py:195-199: a pass of the loop: the parent's name is put in front
\* and the parent becomes current
PathPass ==
    /\ pc = "path_loop"
    /\ Len(path_locals.path_parts) < MaxPathParts
    /\ has_loaded_parent(manager, path_locals.current)
    /\ \E parent \in {manager.collections[path_locals.current].parent_key} :
          path_locals' =
              [path_locals EXCEPT
                  !.path_parts = <<manager.collections[parent].name>> \o @,
                  !.current = parent]
    /\ UNCHANGED <<loop_vars, probe, db, manager, reader, call, connections>>

\* selector.py:195-203: the loop ends, its condition false or by break, and
\* the path is returned
PathReturn ==
    /\ pc = "path_loop"
    /\ ~ has_loaded_parent(manager, path_locals.current)
    /\ call' = Call("get_collection_path", <<path_locals.key>>, NoExc,
                    join(PathSeparator, path_locals.path_parts), 0)
    /\ path_locals' = NoLocals
    /\ pc' = "store"
    /\ UNCHANGED <<papers, delay, analyses, i, translated_title, full_text, attempt,
                   json_bound, log, history, interrupted, exc, probe, db, manager,
                   reader, batch_size, connections>>

InitForest ==
    /\ papers = <<>>
    /\ delay = 0
    /\ analyses = <<>>
    /\ pc = "store"
    /\ i = 0
    /\ translated_title = ""
    /\ full_text = ""
    /\ attempt = 0
    /\ json_bound = FALSE
    /\ log = <<>>
    /\ history = <<>>
    /\ interrupted = <<>>
    /\ exc = NoExc
    /\ probe = NoProbe
    /\ db \in Forests(MaxForest)
    /\ manager = NoObject
    /\ reader = NoObject
    /\ call = NoCall
    /\ batch_size = 1
    /\ path_locals = NoLocals
    /\ connections = 0

NextForest ==
    \/ NewCollectionManager
    \/ PathBegin
    \/ PathPass
    \/ PathReturn

SpecForest == InitForest /\ [][NextForest]_vars

-----------------------------------------------------------------------------
(* CSVExporter: exporter.py. The files are written with csv.writer and
   csv.DictWriter in the default (excel) dialect; the text of a file is
   modelled without its byte-order mark. *)

\* longest list of results exported
MaxResults == 2

\* exporter.py:54-65, the column names
FieldNames ==
    <<"No", "Collection", "Title", "ZhTitle", "Authors", "Abstract", "Innovation",
      "Summary", "Status", "Error">>

\* exporter.py:94
StatusSuccess == "success"

StatusFailed == "failed"

\* titles, collection paths and error messages with the characters the
\* dialect treats specially: delimiter, quote, line ends, blanks
TitleTexts == {"t", "a,b \"x\"", " l1\nl2", "c\r\n\"\"d,"}

PathTexts == {"", "M / B | \"T\",x"}

ErrorTexts == {"", "e: \"q\",\n"}

\* the results handed to the exporter
ResultSamples ==
    {[title |-> t, translated_title |-> "", authors |-> "Ada; Ed",
      collection_path |-> c, abstract |-> "A, a", innovation_points |-> "I",
      summary |-> "S", error_message |-> e] :
        t \in TitleTexts, c \in PathTexts, e \in ErrorTexts}

Digits == <<"0", "1", "2", "3", "4", "5", "6", "7", "8", "9">>

\* str(n) for n >= 0
RECURSIVE str_int(_)
str_int(n) == IF n < 10 THEN Digits[n + 1] ELSE str_int(n \div 10) \o Digits[(n % 10) + 1]

status_by_summary(analysis) ==
    IF StartsWith(analysis.summary, AnalysisFailed) THEN StatusFailed ELSE StatusSuccess

\* exporter.py:94, 269: 'success' if not analysis.error_message else 'failed'
status_of(analysis) ==
    IF analysis.error_message = "" THEN StatusSuccess ELSE StatusFailed

\* exporter.py:76-96: the row of the idx-th result, by column
analysis_row(idx, analysis) ==
    <<str_int(idx), analysis.collection_path, analysis.title,
      analysis.translated_title, analysis.authors, analysis.abstract,
      analysis.innovation_points, analysis.summary, status_of(analysis),
      analysis.error_message>>

\* the characters that make the writer quote a field: delimiter, quotechar
\* and those of the line terminator
SpecialChars == {",", "\"", "\r", "\n"}

has_special(s) == \E k \in 1..Len(s) : SubSeq(s, k, k) \in SpecialChars

\* every quotechar doubled
RECURSIVE double_quotes(_)
double_quotes(s) ==
    IF s = "" THEN ""
    ELSE (IF Take(s, 1) = "\"" THEN "\"\"" ELSE Take(s, 1)) \o double_quotes(Drop(s, 1))

csv_field_undoubled(s) == IF has_special(s) THEN "\"" \o s \o "\"" ELSE s

\* a field as csv.writer writes it (QUOTE_MINIMAL)
csv_field(s) == IF has_special(s) THEN "\"" \o double_quotes(s) \o "\"" ELSE s

\* writer.writerow(row): the fields, delimited, and the line terminator
csv_row(row) == join(",", [k \in DOMAIN row |-> csv_field(row[k])]) \o "\r\n"

RECURSIVE csv_rows(_)
csv_rows(rows) == IF rows = <<>> THEN "" ELSE csv_row(Head(rows)) \o csv_rows(Tail(rows))

\* exporter.py:69-98: the text written to the file
export_analyses(results) ==
    csv_row(FieldNames)
    \o csv_rows([n \in DOMAIN results |-> analysis_row(n, results[n])])

\* exporter.py:253-275: the rows of the detailed report, with the columns it
\* shares with export_analyses
export_detailed_report(results) ==
    [n \in DOMAIN results |->
        [No |-> n, Collection |-> results[n].collection_path,
         Title |-> results[n].title, Status |-> status_of(results[n]),
         Error |-> results[n].error_message,
         TitleLength |-> Len(results[n].title)]]

\* exporter.py:133-135
export_summary_statistics(results) ==
    LET total_papers == Len(results)
        successful_analyses ==
            Cardinality({n \in DOMAIN results : results[n].error_message = ""})
    IN  [total_papers |-> total_papers,
         successful_analyses |-> successful_analyses,
         failed_analyses |-> total_papers - successful_analyses]

\* the state of csv.reader: its parser state, the field and the row in hand,
\* and the rows read
ReaderState(state, field, row, rows) ==
    [state |-> state, field |-> field, row |-> row, rows |-> rows]

\* csv.reader on one character c of a file opened with newline=''
read_char(st, c) ==
    LET newline == c \in {"\r", "\n"}
        state == IF st.state = "eat_crnl" /\ ~ newline THEN "start_record" ELSE st.state
        end_field == Append(st.row, st.field)
    IN  CASE state = "eat_crnl" -> st
          [] state \in {"start_record", "start_field"} ->
               IF newline
               THEN ReaderState("eat_crnl", "", <<>>,
                                Append(st.rows, IF state = "start_record" THEN <<>>
                                                ELSE Append(st.row, "")))
               ELSE IF c = "\"" THEN ReaderState("in_quoted", "", st.row, st.rows)
               ELSE IF c = ","
               THEN ReaderState("start_field", "", Append(st.row, ""), st.rows)
               ELSE ReaderState("in_field", c, st.row, st.rows)
          [] state = "in_field" ->
               IF newline
               THEN ReaderState("eat_crnl", "", <<>>, Append(st.rows, end_field))
               ELSE IF c = "," THEN ReaderState("start_field", "", end_field, st.rows)
               ELSE ReaderState("in_field", st.field \o c, st.row, st.rows)
          [] state = "in_quoted" ->
               IF c = "\"" THEN ReaderState("quote_in_quoted", st.field, st.row, st.rows)
               ELSE ReaderState("in_quoted", st.field \o c, st.row, st.rows)
          [] state = "quote_in_quoted" ->
               IF c = "\"" THEN ReaderState("in_quoted", st.field \o c, st.row, st.rows)
               ELSE IF c = "," THEN ReaderState("start_field", "", end_field, st.rows)
               ELSE IF newline
               THEN ReaderState("eat_crnl", "", <<>>, Append(st.rows, end_field))
               ELSE ReaderState("in_field", st.field \o c, st.row, st.rows)

\* the reader's state after the characters lo..hi of the text, read in order
RECURSIVE read_chars(_, _, _, _)
read_chars(text, lo, hi, st) ==
    IF lo > hi THEN st
    ELSE IF lo = hi THEN read_char(st, SubSeq(text, lo, lo))
    ELSE LET mid == (lo + hi) \div 2
         IN  CHOOSE r \in {read_chars(text, mid + 1, hi, half) :
                             half \in {read_chars(text, lo, mid, st)}} : TRUE

\* list(csv.reader(file)): the rows, a last one without line end among them
csv_reader(text) ==
    LET final == CHOOSE r \in {read_chars(text, 1, Len(text), s) :
                                 s \in {ReaderState("start_record", "", <<>>, <<>>)}} : TRUE
    IN  IF final.state \in {"start_record", "eat_crnl"} THEN final.rows
        ELSE Append(final.rows, Append(final.row, final.field))

\* exporter.py:24-101
ExportAnalyses ==
    /\ pc = "export"
    /\ call.op = "none"
    /\ call' = Call("export_analyses", <<>>, NoExc, export_analyses(analyses), 0)
    /\ UNCHANGED <<loop_vars, probe, db, manager, reader, path_locals, connections>>

\* the file export_analyses wrote is read back
ReadBack ==
    /\ pc = "export"
    /\ call.op = "export_analyses"
    /\ call' = Call("csv_reader", <<>>, NoExc, csv_reader(call.value), 0)
    /\ UNCHANGED <<loop_vars, probe, db, manager, reader, path_locals, connections>>

\* exporter.py:103-178
ExportSummaryStatistics ==
    /\ pc = "export"
    /\ call.op = "none"
    /\ call' = Call("export_summary_statistics", <<>>, NoExc,
                    export_summary_statistics(analyses), 0)
    /\ UNCHANGED <<loop_vars, probe, db, manager, reader, path_locals, connections>>

\* exporter.py:195-278
ExportDetailedReport ==
    /\ pc = "export"
    /\ call.op = "none"
    /\ call' = Call("export_detailed_report", <<>>, NoExc,
                    export_detailed_report(analyses), 0)
    /\ UNCHANGED <<loop_vars, probe, db, manager, reader, path_locals, connections>>

InitExport ==
    /\ papers = <<>>
    /\ delay = 0
    /\ analyses \in UNION {[1..k -> ResultSamples] : k \in 0..MaxResults}
    /\ pc = "export"
    /\ i = 0
    /\ translated_title = ""
    /\ full_text = ""
    /\ attempt = 0
    /\ json_bound = FALSE
    /\ log = <<>>
    /\ history = <<>>
    /\ interrupted = <<>>
    /\ exc = NoExc
    /\ probe = NoProbe
    /\ db = NoDatabase
    /\ manager = NoObject
    /\ reader = NoObject
    /\ call = NoCall
    /\ batch_size = 1
    /\ path_locals = NoLocals
    /\ connections = 0

NextExport ==
    \/ ExportAnalyses
    \/ ReadBack
    \/ ExportSummaryStatistics
    \/ ExportDetailedReport

SpecExport == InitExport /\ [][NextExport]_vars

-----------------------------------------------------------------------------
(* Properties *)

\* the record in hand has its result appended
Completed == i > 0 /\ Len(analyses) = i

\* the analysis calls made for the record in hand
AnalysisCalls == Events(log, "analyze")

\* the record has no extractable PDF text and no abstract
NoText(p) ==
    /\ find_full_text(get(p, "attachments", <<>>), zotero_data_dir).exc = NoExc
    /\ find_full_text(get(p, "attachments", <<>>), zotero_data_dir).value = ""
    /\ original_abstract(p) = ""

\* every call the service got for a record succeeded
Clean(h) == h.translate \in {"none", "return"} /\ h.analyze \in {"none", "json"}

\* every analysis call of a record raised, its translation call (if any) not
Faulted(h) == h.translate \in {"none", "return"} /\ h.analyze = "raise"

\* the result of a record whose calls all succeed
CleanResult(p) ==
    IF NoText(p)
    THEN [title |-> title_of(p),
          translated_title |-> IF is_english_title(title_of(p)) THEN "T-zh" ELSE "",
          authors |-> authors_of(p), collection_path |-> "",
          abstract |-> NoAbstractAvailable, innovation_points |-> CannotAnalyse,
          summary |-> CannotAnalyse, error_message |-> NoTextContent]
    ELSE [title |-> title_of(p),
          translated_title |-> IF is_english_title(title_of(p)) THEN "T-zh" ELSE "",
          authors |-> authors_of(p), collection_path |-> "",
          abstract |-> "A", innovation_points |-> "I", summary |-> "S",
          error_message |-> ""]

\* C1: whenever analyze_paper raises an exception other than a cancellation,
\* the runner appends a failed result carrying its message and goes on; the
\* exception never leaves the batch function, and an uncancelled batch of n
\* records returns n results.
C1_FaultStaysInBatch ==
    /\ pc # "crashed"
    /\ (pc = "returned" /\ interrupted = <<>>) => Len(analyses) = Len(papers)
    /\ \A j \in 1..Len(analyses) :
          find_full_text(get(papers[j], "attachments", <<>>), zotero_data_dir).exc # NoExc
          => analyses[j].error_message
             = str(find_full_text(get(papers[j], "attachments", <<>>),
                                  zotero_data_dir).exc)

\* C2: in an uncancelled batch where exactly one record k has every analysis
\* call raise and every other call succeeds, n results come back in input
\* order, result k has a non-empty error_message and every other result is
\* the one its record yields when nothing fails; only a fault of the text
\* extraction, never one of the service, makes the batch function raise.
C2_OneFaultedRecord ==
    /\ pc = "crashed"
       => find_full_text(get(paper, "attachments", <<>>), zotero_data_dir).exc # NoExc
    /\ (pc = "returned" /\ interrupted = <<>>)
       => /\ Len(analyses) = Len(papers)
          /\ \A j \in 1..Len(analyses) : analyses[j].title = title_of(papers[j])
          /\ \A k \in 1..Len(history) :
                (/\ Faulted(history[k])
                 /\ \A j \in 1..Len(history) : j # k => Clean(history[j]))
                => /\ analyses[k].error_message # ""
                   /\ \A j \in 1..Len(analyses) :
                         j # k => analyses[j] = CleanResult(papers[j])

\* C2 witness: a batch of two returned, the first record faulted, the second clean
C2_Witness ==
    /\ pc = "returned"
    /\ interrupted = <<>>
    /\ Len(papers) = 2
    /\ Len(history) = 2
    /\ Faulted(history[1])
    /\ Clean(history[2])
    /\ history[2].analyze = "json"

\* C3: a record with no extractable PDF text and an empty abstract, whatever
\* its title, gets the 'no text content' error and the generation service is
\* invoked zero times during its analysis.
C3_NoTextNoServiceCall ==
    (Completed /\ NoText(paper))
    => /\ analyses[i].error_message = NoTextContent
       /\ Events(log, "translate") = <<>>
       /\ Events(log, "analyze") = <<>>

\* C4: a fault raised by the generation call in pass 1 or 2 is followed by a
\* 2-second pause and a further call; when every call raises, the service is
\* called exactly 3 times with exactly 2 pauses.
C4_ThreeCallsTwoPauses ==
    (/\ Completed
     /\ AnalysisCalls # <<>>
     /\ \A k \in 1..Len(AnalysisCalls) : AnalysisCalls[k].out = "raise")
    => /\ Len(AnalysisCalls) = max_retries
       /\ Len(Events(log, "retry_sleep")) = max_retries - 1
       /\ \A k \in 1..Len(Events(log, "retry_sleep")) :
             Events(log, "retry_sleep")[k].secs = RetrySleepSeconds

\* the text the record's analysis works on
SourceText(p) == IF p = PaperZhPdf THEN LongText ELSE get(p, "abstractNote", "")

\* a raw response without its fences and surrounding blanks
Unfenced(raw) ==
    IF raw = RespLongProse THEN Rep("r", RawChars + 5)
    ELSE IF raw = RespProse THEN "Sorry, no JSON."
    ELSE raw

ThreeUnparsable ==
    /\ Completed
    /\ Len(AnalysisCalls) = 3
    /\ \A k \in 1..3 : AnalysisCalls[k].out = "unparsable"

\* C5: when all 3 analysis calls return text that is no JSON, the result has
\* an empty error_message, its abstract is the first 300 characters of the
\* truncated source text, and innovation_points and summary are the
\* parse-failure marker followed by the first 200 characters of the last
\* response with its fences stripped.
C5_DegradedResult ==
    ThreeUnparsable
    => /\ analyses[i].error_message = ""
       /\ analyses[i].abstract
          = Take(Take(SourceText(paper), max_tokens), AbstractChars)
       /\ analyses[i].innovation_points
          = ParseFailedMarker \o Take(Unfenced(AnalysisCalls[3].msg), RawChars)
       /\ analyses[i].summary = analyses[i].innovation_points

\* C5 witness: the long source text, a short first response and a long last one
C5_Witness ==
    /\ ThreeUnparsable
    /\ paper = PaperZhPdf
    /\ AnalysisCalls[1].msg = RespProse
    /\ AnalysisCalls[3].msg = RespLongProse
    /\ Len(analyses[i].abstract) = AbstractChars
    /\ Len(analyses[i].summary) = Len(ParseFailedMarker) + RawChars

\* C6: every hard failure of the analysis step, also one whose exception has
\* an empty message, yields a result with a non-empty error_message.
C6_HardFailureHasMessage ==
    (/\ Completed
     /\ AnalysisCalls # <<>>
     /\ AnalysisCalls[Len(AnalysisCalls)].out \in {"raise", "partial"})
    => analyses[i].error_message # ""

C9_TranslationBestEffort ==
    /\ pc \in {"extract", "llm", "retry_sleep"} \/ Completed
       => /\ Len(Events(log, "translate"))
             = IF is_english_title(title_of(paper)) THEN 1 ELSE 0
          /\ \A k \in 1..Len(log) : log[k].op = "translate" => k = 1
    /\ pc \in {"extract", "llm", "retry_sleep"}
       => /\ exc = NoExc
          /\ Len(analyses) = i - 1
          /\ translated_title
             = IF log # <<>> /\ log[1].op = "translate" /\ log[1].out = "return"
               THEN "T-zh" ELSE ""
    /\ pc = "except"
       => exc = find_full_text(get(paper, "attachments", <<>>), zotero_data_dir).exc
    /\ Completed
       => /\ analyses[i].translated_title
             = IF log # <<>> /\ log[1].op = "translate" /\ log[1].out = "return"
               THEN "T-zh" ELSE ""
          /\ (analyses[i].error_message = NoTextContent) = NoText(paper)
          /\ (AnalysisCalls # <<>>
              /\ AnalysisCalls[Len(AnalysisCalls)].out \in {"json", "unparsable"})
             => analyses[i].error_message = ""

\* C9 witness: the translation call raised and the record still succeeded
C9_Witness ==
    /\ Completed
    /\ log # <<>>
    /\ log[1].op = "translate"
    /\ log[1].out = "raise"
    /\ analyses[i].translated_title = ""
    /\ analyses[i].error_message = ""
    /\ analyses[i].summary = "S"

\* the letters of ASCII in a title, and all its letters, counted by position
AsciiLetterPositions(title) ==
    {k \in DOMAIN title : title[k] \in (65..90) \cup (97..122)}

LetterPositions(title) ==
    {k \in DOMAIN title : title[k] \in (65..90) \cup (97..122) \cup NonAsciiLetters}

\* C10: _is_english_title(title) is true exactly when the title has at least
\* one alphabetic character and 10 * (ASCII letters) > 7 * (letters); it is
\* false for a ratio of exactly 0.7, for an empty title and for a title
\* without letters.
C10_EnglishExactlyAboveSevenTenths ==
    probe.verdict # "unset"
    => (probe.verdict = "english")
       = (/\ Cardinality(LetterPositions(probe.title)) >= 1
          /\ 10 * Cardinality(AsciiLetterPositions(probe.title))
             > 7 * Cardinality(LetterPositions(probe.title)))

\* C10 witness: a title whose letters are ASCII for exactly 7 in 10, judged
\* not English
C10_Witness ==
    /\ probe.verdict = "other"
    /\ Cardinality(LetterPositions(probe.title)) = 10
    /\ Cardinality(AsciiLetterPositions(probe.title)) = 7

\* the collectionID of a collection key of the database
id_of(key) == CHOOSE c \in DOMAIN db.parent : CollectionKeys[c] = key

\* whether collection c has a parent that is in the database
HasParent(c) == db.parent[c] \in DOMAIN db.parent

\* the number of collections above c
Depth(c) ==
    CHOOSE k \in 0..Cardinality(DOMAIN db.parent) :
        /\ Ancestor(db.parent, c, k) # NULL
        /\ Ancestor(db.parent, c, k + 1) = NULL

\* the names from c's root down to c, joined
RECURSIVE ExpectedPath(_)
ExpectedPath(c) ==
    IF HasParent(c)
    THEN ExpectedPath(db.parent[c]) \o " / " \o CollectionNames[c]
    ELSE CollectionNames[c]

\* a call of get_collection_path for a collection of the database
PathCall ==
    /\ call.op = "get_collection_path"
    /\ call.args[1] \in {CollectionKeys[c] : c \in DOMAIN db.parent}

\* C11: for every loaded collection c of an acyclic forest,
\* get_collection_path(c.key) is the names of c's ancestors from the root down
\* to c joined by " / ": depth(c) + 1 segments, the first the name of c's root
\* ancestor, the last c's own name.
C11_PathFromRoot ==
    PathCall
    => LET c == id_of(call.args[1])
           root == Ancestor(db.parent, c, Depth(c))
       IN  /\ call.value = ExpectedPath(c)
           /\ Cardinality(Occurrences(call.value, " / ")) = Depth(c)
           /\ StartsWith(call.value, CollectionNames[root])
           /\ Drop(call.value, Len(call.value) - Len(CollectionNames[c]))
              = CollectionNames[c]

\* C11 witness: the path of a collection below a root
C11_Witness ==
    /\ PathCall
    /\ Depth(id_of(call.args[1])) = 1
    /\ Cardinality(Occurrences(call.value, " / ")) = 1

\* the collections that directly contain the item
Containing(item_key) ==
    {c \in DOMAIN db.parent :
        \E it \in DOMAIN Items : Items[it].key = item_key /\ c \in db.links[it]}

\* C12: with the database unchanged since load, get_item_collection_paths
\* returns exactly one path per collection that directly contains the item,
\* none for a collection that is only an ancestor of one, each the
\* get_collection_path of that collection; for an item in no collection or an
\* unknown item key it returns the empty list.
C12_OnePathPerContainingCollection ==
    (call.op = "get_item_collection_paths" /\ call.exc = NoExc)
    => /\ Len(call.value) = Cardinality(Containing(call.args[1]))
       /\ \A c \in Containing(call.args[1]) :
             /\ ExpectedPath(c) \in Range(call.value)
             /\ ExpectedPath(c) = get_collection_path(manager, CollectionKeys[c])
       /\ \A n \in DOMAIN call.value :
             \E c \in Containing(call.args[1]) : call.value[n] = ExpectedPath(c)
       /\ Containing(call.args[1]) = {} => call.value = <<>>

\* C12 witness: an item held only by a collection that has a parent
C12_Witness ==
    /\ call.op = "get_item_collection_paths"
    /\ call.args = <<"P1">>
    /\ Cardinality(Containing("P1")) = 1
    /\ \E c \in Containing("P1") : HasParent(c)
    /\ Len(call.value) = 1

\* how often the item is in the list returned
TimesListed(it) == Cardinality({n \in DOMAIN call.value : call.value[n].itemID = it})

\* the requested collections that directly contain the item
AskedHolding(it) == {c \in db.links[it] : CollectionKeys[c] \in Range(call.args)}

ItemsCall == call.op = "get_collection_items" /\ call.exc = NoExc

\* C13 as stated: an item directly linked to k >= 2 of the requested
\* collections appears k times in the list get_collection_items returns.
C13_Original ==
    ItemsCall
    => \A it \in DOMAIN Items :
          (Items[it].typeName \notin ExcludedTypes
           /\ Cardinality(AskedHolding(it)) >= 2)
          => TimesListed(it) = Cardinality(AskedHolding(it))

\* C13 amended: get_collection_items deduplicates across overlapping
\* collections: an item that is neither note nor attachment and is directly
\* linked to k >= 1 of the requested collections appears exactly once, however
\* large k is and however often a key is repeated in the request; any other
\* item does not appear.
C13_ListedOnce ==
    ItemsCall
    => /\ \A it \in DOMAIN Items :
             TimesListed(it)
             = IF Items[it].typeName \notin ExcludedTypes /\ AskedHolding(it) # {}
               THEN 1 ELSE 0
       /\ \A n \in DOMAIN call.value : call.value[n].itemID \in DOMAIN Items

\* C13 witness: an item in both requested collections, listed once
C13_Witness ==
    /\ ItemsCall
    /\ Cardinality(AskedHolding(1)) = 2
    /\ TimesListed(1) = 1

\* how often x is in a sequence
Count(seq, x) == Cardinality({n \in DOMAIN seq : seq[n] = x})

\* C14: after CollectionManager has loaded a snapshot, every collection is in
\* the forest exactly once: in the root list when it has no parent or its
\* parent identifier matches no collection of the snapshot, otherwise in the
\* children list of exactly its parent; none is in both or in neither.
C14_PlacedExactlyOnce ==
    manager.constructed
    => /\ DOMAIN manager.collections = {CollectionKeys[c] : c \in DOMAIN db.parent}
       /\ \A c \in DOMAIN db.parent :
             LET k == CollectionKeys[c]
             IN  /\ Count(manager.root_collections, k) = IF HasParent(c) THEN 0 ELSE 1
                 /\ \A p \in DOMAIN db.parent :
                       Count(manager.collections[CollectionKeys[p]].children, k)
                       = IF HasParent(c) /\ db.parent[c] = p THEN 1 ELSE 0

\* C14 witness: a snapshot with a dangling parent and a child collection
C14_Witness ==
    /\ manager.constructed
    /\ \E c, e \in DOMAIN db.parent :
          /\ db.parent[c] # NULL
          /\ ~ HasParent(c)
          /\ db.parent[e] = c
          /\ manager.root_collections = <<CollectionKeys[c]>>
          /\ manager.collections[CollectionKeys[c]].children = <<CollectionKeys[e]>>

\* C16: constructing LocalZoteroReader or CollectionManager with a path at
\* which there is no database file raises FileNotFoundError at once: no
\* database connection is opened, no collection is loaded, no object comes
\* to be and no operation is ever called on one.
C16_MissingDatabaseIsFatal ==
    db.kind = "absent"
    => /\ ~ manager.constructed
       /\ ~ reader.constructed
       /\ call.op \in {"none", "CollectionManager", "LocalZoteroReader"}
       /\ call.op # "none"
          => /\ call.exc.type = "FileNotFoundError"
             /\ call.opened = 0

\* C16 witness: CollectionManager was tried on a missing database
C16_Witness ==
    /\ db.kind = "absent"
    /\ call.op = "CollectionManager"
    /\ call.exc = FileNotFound

\* C17: no operation of the Record Store Reader or the Collection Resolver
\* changes the database: its state after any sequence of them is its state
\* before.
C17_DatabaseUnchanged == [][db' = db]_vars

\* C17 witness: operations were called on a database with a dangling parent
\* and returned records
C17_Witness ==
    /\ call.op = "get_collection_items"
    /\ call.value # <<>>
    /\ reader.constructed
    /\ \E c \in DOMAIN db.parent : db.parent[c] # NULL /\ ~ HasParent(c)

\* the collection-path lookup of the record in hand raises
LookupFails == manager.constructed /\ ~ readable(db)

\* C20: in analyze_paper with a collection manager, a fault raised by the
\* collection-path lookup never surfaces as a record error: the result has
\* the 'unknown' sentinel as collection_path, an item in no collection gets
\* the 'uncategorized' sentinel, and error_message and the abstract,
\* innovation and summary fields are what they are when the lookup succeeds.
C20_LookupBestEffort ==
    /\ pc \in {"except", "crashed"}
       => /\ exc # OperationalError(db)
          /\ find_full_text(get(paper, "attachments", <<>>), zotero_data_dir).exc # NoExc
    /\ Completed
       => /\ LookupFails => analyses[i].collection_path = UnknownPath
          /\ (manager.constructed /\ readable(db) /\ Containing(paper.key) = {})
             => analyses[i].collection_path = UncategorizedPath
          /\ ~ manager.constructed => analyses[i].collection_path = ""
          /\ (analyses[i].error_message = NoTextContent) = NoText(paper)
          /\ analyses[i].error_message # str(OperationalError(db))
          /\ Clean(history[i])
             => [analyses[i] EXCEPT !.collection_path = ""] = CleanResult(paper)
          /\ (AnalysisCalls # <<>>
              /\ AnalysisCalls[Len(AnalysisCalls)].out \in {"json", "unparsable"})
             => analyses[i].error_message = ""

\* C20 witness: the lookup raised and the record was analysed with success
C20_Witness ==
    /\ Completed
    /\ LookupFails
    /\ analyses[i].collection_path = UnknownPath
    /\ analyses[i].error_message = ""
    /\ analyses[i].summary = "S"

\* the title holds the keyword, letter case apart
HoldsKeyword(q, keyword) ==
    LET t == IF "title" \in DOMAIN q THEN q.title ELSE <<>>
        same(a, b) == a = b \/ (a \in 65..90 /\ a + 32 = b) \/ (b \in 65..90 /\ b + 32 = a)
    IN  \E k \in 0..(Len(t) - Len(keyword)) :
            \A j \in 1..Len(keyword) : same(t[k + j], keyword[j])

\* the record passes the type filter and the keyword filter of the call
Passes(q) ==
    /\ call.args[2] # <<>>
       => "typeName" \in DOMAIN q /\ \E n \in DOMAIN call.args[2] : call.args[2][n] = q.typeName
    /\ \A n \in DOMAIN call.args[3] : ~ HoldsKeyword(q, call.args[3][n])

\* the records of the input that pass, in the input's order
Kept == SelectSeq(call.args[1], Passes)

\* C15 as stated: filter_papers returns the first `limit` records of the list
\* left by the type filter and then the keyword filter, whatever limit is
\* given.
C15_Original ==
    call.op = "filter_papers"
    => call.value = IF call.args[4] = <<>> THEN Kept
                    ELSE SubSeq(Kept, 1, Min(call.args[4][1], Len(Kept)))

\* C15 amended: filter_papers returns, in the original order, the records
\* whose item type is in the allow-list (when one is given) and whose title
\* holds no exclude keyword, letter case apart; when limit is a positive
\* integer only the first `limit` of them, so that filtered records never
\* count toward the limit, and when limit is absent or 0 all of them; the
\* input list is not modified.
C15_FilterThenCap ==
    (call.op = "filter_papers" /\ (call.args[4] = <<>> \/ call.args[4][1] >= 0))
    => /\ call.value = IF call.args[4] = <<>> \/ call.args[4][1] = 0 THEN Kept
                       ELSE SubSeq(Kept, 1, Min(call.args[4][1], Len(Kept)))
       /\ papers = call.args[1]

\* C15 witness: the cap cuts the filtered list, and a record the filters
\* drop stands before the records returned
C15_Witness ==
    /\ call.op = "filter_papers"
    /\ call.args[4] = <<1>>
    /\ Len(Kept) = 2
    /\ Len(call.value) = 1
    /\ call.value[1] # call.args[1][1]
    /\ call.args[2] # <<>>
    /\ call.args[3] # <<>>

\* the file was read back as a header row and one row of ten fields per result
WellFormed ==
    /\ call.op = "csv_reader"
    /\ Len(call.value) = Len(analyses) + 1
    /\ \A n \in DOMAIN call.value : Len(call.value[n]) = Len(FieldNames)

\* the row read back for the n-th result
RowOf(n) == call.value[n + 1]

\* C18: in every export the status of a row is 'failed' exactly when the
\* result's error_message is non-empty and 'success' otherwise, the rows are
\* numbered 1..n in the order of the results, one row per result, and in the
\* statistics successful count + failed count = total count, with the same
\* discriminator.
C18_StatusFromErrorMessage ==
    /\ call.op = "csv_reader"
       => /\ WellFormed
          /\ call.value[1] = FieldNames
          /\ \A n \in DOMAIN analyses :
                /\ RowOf(n)[1] = str_int(n)
                /\ RowOf(n)[9] = IF analyses[n].error_message # ""
                                 THEN "failed" ELSE "success"
    /\ call.op = "export_detailed_report"
       => /\ Len(call.value) = Len(analyses)
          /\ \A n \in DOMAIN analyses :
                /\ call.value[n].No = n
                /\ call.value[n].Title = analyses[n].title
                /\ call.value[n].Status = IF analyses[n].error_message # ""
                                          THEN "failed" ELSE "success"
    /\ call.op = "export_summary_statistics"
       => /\ call.value.total_papers = Len(analyses)
          /\ call.value.successful_analyses + call.value.failed_analyses
             = call.value.total_papers
          /\ call.value.failed_analyses
             = Cardinality({n \in DOMAIN analyses : analyses[n].error_message # ""})

\* C18 witness: a failed result followed by a successful one, read back
C18_Witness ==
    /\ WellFormed
    /\ Len(analyses) = 2
    /\ analyses[1].error_message # ""
    /\ analyses[2].error_message = ""
    /\ RowOf(1)[9] = "failed"
    /\ RowOf(2)[9] = "success"
    /\ RowOf(2)[1] = "2"

\* C19: round trip: writing a list of results with export_analyses and
\* parsing the file again recovers, for every row in order, the title, the
\* collection-path string and the success/failure flag of the result.
C19_RoundTrip ==
    call.op = "csv_reader"
    => /\ WellFormed
       /\ \A n \in DOMAIN analyses :
             /\ RowOf(n)[3] = analyses[n].title
             /\ RowOf(n)[2] = analyses[n].collection_path
             /\ (RowOf(n)[9] = StatusFailed) = (analyses[n].error_message # "")
             /\ (RowOf(n)[10] # "") = (analyses[n].error_message # "")

\* C19 witness: a title with line ends, quotes and a delimiter, and a path
\* with quotes and a delimiter, read back
C19_Witness ==
    /\ WellFormed
    /\ Len(analyses) = 2
    /\ analyses[2].title = "c\r\n\"\"d,"
    /\ RowOf(2)[3] = "c\r\n\"\"d,"
    /\ RowOf(1)[2] = "M / B | \"T\",x"
    /\ analyses[1].error_message # ""

\* C21: every result the Batch Runner produces for a record obtained through
\* selected collections has a non-empty collection_path: the record's folder
\* paths joined with " | ", or one of the sentinels; never the empty string.
C21_CollectionPathNeverEmpty ==
    \A j \in 1..Len(analyses) : analyses[j].collection_path # ""

\* C22 as stated: a pacing sleep follows record i only if the record's result
\* has no error_message and a further record remains.
C22_Original ==
    pc = "pace" => analyses[i].error_message = "" /\ i < Len(papers)

\* the last entry of the log is the pacing sleep of the configured delay
PacedLast == log # <<>> /\ log[Len(log)] = Event("pace", "", "", delay)

\* C22 amended: the pacing sleep follows every record for which analyze_paper
\* returned a result, whether the result carries an error_message or not and
\* whether a further record remains or not (it also follows the last
\* record): with a positive delay exactly one sleep of the configured delay
\* between the result's append and the next record or the return; no sleep
\* happens when the delay is 0 or negative, and none after a record whose
\* analysis raised into the runner's handler.
C22_PaceAfterEachResult ==
    /\ pc = "pace" => delay > 0 /\ Completed
    /\ pc \in {"except", "crashed"} => Len(Events(log, "pace")) = 0
    /\ Len(Events(log, "pace")) <= 1
    /\ delay <= 0 => Events(log, "pace") = <<>>
    /\ (pc \in {"loop", "returned"} /\ interrupted = <<>> /\ Completed)
       => (delay > 0) = PacedLast

\* C22 witness: the sleep after the last record of the batch, whose result
\* carries an error_message
C22_Witness ==
    /\ pc = "returned"
    /\ interrupted = <<>>
    /\ i = Len(papers)
    /\ i = 2
    /\ Completed
    /\ analyses[i].error_message # ""
    /\ PacedLast
    /\ delay = 1

\* the runner is inside the analysis of the record in hand
InRecord == pc \in {"translate", "extract", "llm", "retry_sleep", "except"}

\* the records are taken one at a time in input order, whatever batch_size
\* is, and result j belongs to record j
OneAtATimeInOrder ==
    /\ records = papers
    /\ Len(history) = Len(analyses)
    /\ InRecord => Len(analyses) = i - 1
    /\ pc \in {"loop", "pace"} => Len(analyses) = i
    /\ \A j \in 1..Len(analyses) :
          /\ analyses[j].title = title_of(papers[j])
          /\ analyses[j].authors = authors_of(papers[j])

\* C23: an uncancelled run of analyze_papers_batch analyses each input record
\* exactly once, one at a time in input order, and returns a list in which
\* result i belongs to record i; in simple_analyzer.py this holds for every
\* batch_size >= 1, with the record order of batch_size = 1.
C23_EachRecordOnceInOrder ==
    /\ OneAtATimeInOrder
    /\ interrupted = <<>> => pc # "crashed"
    /\ (pc = "returned" /\ interrupted = <<>>) => Len(analyses) = Len(papers)

\* the calls of one analyze_paper stay within 1 translation and 3 analyses,
\* and no result comes from the raise after the retry loop
WithinRetries ==
    /\ Len(Events(log, "translate")) <= 1
    /\ Len(AnalysisCalls) <= max_retries
    /\ attempt < max_retries
    /\ Len(Events(log, "retry_sleep")) < max_retries
    /\ \A j \in 1..Len(analyses) :
          analyses[j].error_message # str(MaxRetriesReached)

\* C24: for every sequence of outcomes of the generation service (success,
\* unparsable text, missing fields, transport fault), one call of
\* analyze_paper terminates after at most 1 translation call and at most 3
\* analysis calls, and _call_llm_analysis leaves its retry loop by a return
\* or by an exception raised inside the loop: the raise after the loop is
\* never reached.
C24_AnalysisTerminates ==
    /\ [] WithinRetries
    /\ <>(pc \in {"returned", "crashed"})

\* C24 witness: three analysis calls, an unparsable text, an object without
\* its fields and a transport fault, and the record has its failed result
C24_Witness ==
    /\ Completed
    /\ Len(AnalysisCalls) = max_retries
    /\ AnalysisCalls[1].out = "unparsable"
    /\ AnalysisCalls[2].out = "partial"
    /\ AnalysisCalls[3].out = "raise"
    /\ Len(Events(log, "translate")) = 1
    /\ analyses[i].error_message = str(ConnectionFault)

\* the places in the log of analysis calls that returned a JSON object
\* without all three required fields
PartialAt == {n \in DOMAIN log : log[n].op = "analyze" /\ log[n].out = "partial"}

\* how many analysis calls the log has up to place n
CallsUpTo(n) == Len(Events(SubSeq(log, 1, n), "analyze"))

\* C25: a response that parses as JSON but lacks any of the three required
\* fields is never accepted: before the final attempt it is retried after a
\* 2-second pause, on the final attempt it becomes a hard failure (a result
\* with error_message set) and not the degraded soft result; whenever
\* _call_llm_analysis returns normally, the object returned has all three
\* fields.
C25_MissingFieldsNeverAccepted ==
    /\ \A n \in PartialAt :
          IF CallsUpTo(n) < max_retries
          THEN /\ n = Len(log) => pc = "retry_sleep" \/ interrupted # <<>>
               /\ n < Len(log)
                  => log[n + 1] = Event("retry_sleep", "", "", RetrySleepSeconds)
          ELSE /\ Completed
               /\ Events(SubSeq(log, n + 1, Len(log)), "analyze") = <<>>
               /\ Events(log, "retry_sleep") = Events(SubSeq(log, 1, n), "retry_sleep")
               /\ analyses[i].error_message = str(MissingFields)
               /\ analyses[i].error_message # ""
               /\ ~ StartsWith(analyses[i].summary, ParseFailedMarker)
    /\ (Completed /\ AnalysisCalls # <<>>)
       => /\ AnalysisCalls[Len(AnalysisCalls)].out \in {"json", "unparsable"}
             => analyses[i].error_message = ""
          /\ AnalysisCalls[Len(AnalysisCalls)].out = "json"
             => /\ analyses[i].abstract = "A"
                /\ analyses[i].innovation_points = "I"
                /\ analyses[i].summary = "S"
          /\ AnalysisCalls[Len(AnalysisCalls)].out = "unparsable"
             => /\ Len(AnalysisCalls) = max_retries
                /\ StartsWith(analyses[i].innovation_points, ParseFailedMarker)
                /\ StartsWith(analyses[i].summary, ParseFailedMarker)
                /\ analyses[i].abstract # ""

\* C25 witness: an object without its fields in the first pass, retried after
\* the pause, and again in the last pass, where the record fails hard
C25_Witness ==
    /\ Completed
    /\ Len(AnalysisCalls) = max_retries
    /\ AnalysisCalls[1].out = "partial"
    /\ AnalysisCalls[2].out = "unparsable"
    /\ AnalysisCalls[3].out = "partial"
    /\ Len(Events(log, "retry_sleep")) = 1
    /\ analyses[i].error_message = str(MissingFields)

\* a call of filter_papers with an integer limit of at least n
LimitAtLeast(n) ==
    call.op = "filter_papers" /\ call.args[4] # <<>> /\ call.args[4][1] >= n

\* the list returned is a prefix of the type- and keyword-filtered list
PrefixOfKept ==
    Len(call.value) <= Len(Kept) /\ call.value = SubSeq(Kept, 1, Len(call.value))

\* C26 as stated: for every integer limit >= 0, limit = 0 among them, the
\* list filter_papers returns has at most `limit` records and is a prefix of
\* the type- and keyword-filtered list.
C26_Original ==
    LimitAtLeast(0) => Len(call.value) <= call.args[4][1] /\ PrefixOfKept

\* C26 amended: for every integer limit >= 1 the list filter_papers returns
\* has min(limit, number of filtered records) records and is a prefix of the
\* type- and keyword-filtered list, so that a positive limit is a hard upper
\* bound on the records handed to the batch runner; limit = 0 means no limit,
\* as an absent limit does: the whole filtered list is returned.
C26_PositiveLimitIsHardBound ==
    /\ LimitAtLeast(1)
       => /\ Len(call.value) <= call.args[4][1]
          /\ Len(call.value) = Min(call.args[4][1], Len(Kept))
          /\ PrefixOfKept
    /\ (LimitAtLeast(0) /\ call.args[4][1] = 0) => call.value = Kept

\* C26 witness: three records pass the filters and a limit of 2 cuts the list
C26_Witness ==
    /\ LimitAtLeast(1)
    /\ call.args[4] = <<2>>
    /\ Len(Kept) = 3
    /\ Len(call.value) = 2
    /\ call.value = SubSeq(call.args[1], 1, 2)

\* the attachment has the PDF content type
IsPdf(a) == "contentType" \in DOMAIN a /\ a.contentType = "application/pdf"

\* a storage-relative descriptor
InStorage(a) == "path" \in DOMAIN a /\ SubSeq(a.path, 1, 8) = "storage:"

\* where the descriptor points: <storage root>/storage/<attachment key>/
\* <relative path> for a storage-relative one, nothing when the storage root
\* or the attachment's key is missing, the path itself for a linked file
TargetPath(a, data_dir) ==
    IF "path" \notin DOMAIN a THEN None
    ELSE IF ~ InStorage(a) THEN a.path
    ELSE IF data_dir \in {None, ""} \/ "key" \notin DOMAIN a THEN None
    ELSE data_dir \o "/storage/" \o a.key \o "/" \o SubSeq(a.path, 9, Len(a.path))

\* a PDF whose file exists, one whose file has text, one whose file may not
\* be looked at
Usable(a, data_dir) == IsPdf(a) /\ TargetPath(a, data_dir) \in DOMAIN FileText

Yields(a, data_dir) == Usable(a, data_dir) /\ FileText[TargetPath(a, data_dir)] # ""

Refused(a, data_dir) == IsPdf(a) /\ TargetPath(a, data_dir) \in DeniedPaths

\* the place in the list where the loop ends: the first attachment that yields
\* text or raises, and past the list when there is none
StopAt(atts, data_dir) ==
    CHOOSE n \in 1..(Len(atts) + 1) :
        /\ n <= Len(atts) => Yields(atts[n], data_dir) \/ Refused(atts[n], data_dir)
        /\ \A m \in 1..(n - 1) : ~ Yields(atts[m], data_dir) /\ ~ Refused(atts[m], data_dir)

\* the paths of the usable attachments among the first n, in list order
RECURSIVE UsablePaths(_, _, _)
UsablePaths(atts, data_dir, n) ==
    IF n = 0 THEN <<>>
    ELSE UsablePaths(atts, data_dir, n - 1)
         \o (IF n <= Len(atts) /\ Usable(atts[n], data_dir)
             THEN <<TargetPath(atts[n], data_dir)>> ELSE <<>>)

\* C27: in analyze_paper, text extraction is attempted only for attachments
\* whose content type is PDF and whose resolved path exists; the attachments
\* are tried in list order, the first that yields non-empty text supplies the
\* full text and no later attachment is extracted; a storage-relative
\* descriptor resolves to <storage root>/storage/<attachment's own key>/
\* <relative path>, and to nothing when the storage root or the attachment's
\* key is missing.
C27_FirstReadablePdfWins ==
    /\ call.op = "find_full_text"
       => LET atts == call.args[1]
              data_dir == call.args[2]
              stop == StopAt(atts, data_dir)
          IN  /\ \A k \in DOMAIN call.value.extracted :
                    \E n \in DOMAIN atts :
                        /\ IsPdf(atts[n])
                        /\ call.value.extracted[k] = TargetPath(atts[n], data_dir)
                        /\ call.value.extracted[k] \in DOMAIN FileText
              /\ call.value.extracted = UsablePaths(atts, data_dir, stop)
              /\ (call.exc # NoExc) = (stop <= Len(atts) /\ Refused(atts[stop], data_dir))
              /\ call.value.text
                 = IF stop <= Len(atts) /\ Yields(atts[stop], data_dir)
                   THEN FileText[TargetPath(atts[stop], data_dir)] ELSE ""
              /\ call.value.text # ""
                 => call.value.extracted[Len(call.value.extracted)]
                    = TargetPath(atts[stop], data_dir)
    /\ (call.op = "get_attachment_path" /\ call.exc = NoExc)
       => LET a == call.args[1]
              data_dir == call.args[2]
          IN  /\ call.value = IF TargetPath(a, data_dir) \in DOMAIN FileText
                              THEN TargetPath(a, data_dir) ELSE None
              /\ (InStorage(a) /\ (data_dir \in {None, ""} \/ "key" \notin DOMAIN a))
                 => call.value = None

\* C27 witness: a page that is no PDF, a scan without text, the PDF that
\* supplies the text; the linked PDF after it is not extracted
C27_Witness ==
    /\ call.op = "find_full_text"
    /\ call.args = <<<<AttScan, AttPdf, AttLinked>>, zotero_data_dir>>
    /\ call.value.text = LongText
    /\ call.value.extracted
       = <<"/zotero/storage/ATT2/scan.pdf", "/zotero/storage/ATT1/paper.pdf">>

\* the passes the loop of get_collection_path has made
PassesMade == Len(path_locals.path_parts) - 1

\* the loop has made as many passes as there are collections and goes on
LoopOverrun ==
    /\ pc = "path_loop"
    /\ PassesMade >= Cardinality(DOMAIN manager.collections)

\* C28: get_collection_path terminates for every collection key: for an
\* unknown key it returns the empty string at once, for a collection in an
\* acyclic parent chain it stops after at most depth iterations (the pass for
\* the collection itself apart), and it also terminates when the parent links
\* contain a cycle, a collection that is its own parent among them.
C28_PathLoopTerminates ==
    /\ ~ LoopOverrun
    /\ (pc = "path_loop" /\ Acyclic(db.parent))
       => PassesMade <= Depth(id_of(path_locals.key))
    /\ (call.op = "get_collection_path" /\ call.args[1] \notin DOMAIN manager.collections)
       => call.value = ""

\* C29: after CollectionManager has loaded an acyclic snapshot, every
\* collection's level equals its depth in the forest (0 for a root, its
\* parent's level + 1 otherwise), whatever the name order of a collection and
\* its ancestors.
C29_LevelIsDepth ==
    (manager.constructed /\ Acyclic(db.parent))
    => \A c \in DOMAIN db.parent :
          manager.collections[CollectionKeys[c]].level = Depth(c)

-----------------------------------------------------------------------------
\* the operations that query the database
DbOperations ==
    {"CollectionManager", "get_all_items", "get_item_collection_paths",
     "get_collection_items"}

\* whether the last call reached sqlite3.connect and the connect succeeded:
\* the database is a file (locked or not) and the call was not answered
\* before connecting (an empty key list)
Connected ==
    /\ call.op \in DbOperations
    /\ db.kind \in {"file", "locked"}
    /\ ~ (call.op = "get_collection_items" /\ call.args = <<>>)

\* C30: every database operation opens its own connection (one, when it gets
\* as far as a successful connect, and none otherwise) and has closed it when
\* it returns or raises, so that after any sequence of operations no
\* connection is open
C30_ConnectionsClosed ==
    /\ connections = 0
    /\ call.opened = (IF Connected THEN 1 ELSE 0)

\* a query on a locked database has raised on a connection it had opened
C30_Witness ==
    /\ call.op \in {"get_item_collection_paths", "get_collection_items"}
    /\ call.exc # NoExc
    /\ call.opened = 1
    /\ connections = 0

====
